---- MODULE Spec2Model ----
(***************************************************************************)
(* A model of the portfolio site's view-state derivation: the route key     *)
(* resolver (useRouteKey), the portfolio data composer (usePortfolioData,    *)
(* buildCategories), the experience data composer (useExperienceData,        *)
(* sortExperiences, parseDateKey) and the scroll-spy                         *)
(* (usePortfolioScrollSpy).                                                  *)
(*                                                                           *)
(* JavaScript strings on which the code does character work (trim,           *)
(* toLowerCase, replace, split, match) are sequences of one-character        *)
(* strings, so that each conversion is computed and never assumed.           *)
(***************************************************************************)
EXTENDS Integers, Sequences, FiniteSets, TLC

VARIABLES
    \* useRouteKey: the browser location and the memoised key
    hasWindow, publicUrl, locHash, locPath, routeMounted, routeKey,
    \* usePortfolioData: the static JSON data, the composed result, and whether
    \* composing it threw
    portfolioMap, upperFirst, ROUTE_CONFIG, dataLoaded, dataRouteKey,
    resolvedFrom, categories, portfolioItems, renderError,
    \* parseDateKey: the date written, its text, and the key parsed from it
    dateInput, dateText, dateParsed, dateKey,
    \* useExperienceData: experienceData.json, cvSettings.groups and the groups
    dataset, preferredGroups, expLoaded, experienceGroups,
    \* usePortfolioScrollSpy: the page (the enabled flag, the sections found, the
    \* window and the scroll position), the effect (run, listening, ticking, the
    \* frame callbacks requested), the state of Main it sets, and a record of the
    \* events since the last animation frame
    enabled, sections, viewport, scrollY, effectRan, listening, ticking, rafQueue,
    activePortfolio, expandedCategories, justEvaluated, frameScrolls, frameResizes,
    \* the cv values of the current and the default route, the bundled CV files,
    \* and the CV settings composed from them
    currentCv, defaultCv, CV_ASSETS, cvLoaded, cvSettings, cvAssetLoaded,
    cvAsset,
    \* the floating banner: the work it belongs to, the rectangle of its banner, the
    \* window, the effect (run, listening, a frame requested) and the state it sets
    bannerPage, bannerRect, innerWidth, bannerScrollY, bannerMounted,
    bannerListening, bannerFrame, floatingBannerState,
    \* the build wrapper: its platform and environment, the child it spawns, the
    \* close event of the child and the exit status of the wrapper
    platform, processEnv, buildPhase, childCommand, childEnv, closeEvent,
    exitStatus,
    \* Main: the content selected, the mobile navigation, the section last tracked,
    \* and the effects due at the next commit
    selectedContent, isMobileNavOpen, lastSection, resetDue, spyDue,
    spySetUp,
    \* the page after its load: whether Main has rendered again since the location
    \* last changed
    reRendered,
    \* the floating banner across commits: the works expanded, whether its effect is
    \* due, and the active code its last run captured
    expandedWorks, bannerDue, activeCode,
    \* PortfolioOverview: the row of a category, whether its node is in rowRefs, its
    \* entry of scrollState, whether a render and a frame are due, and whether the
    \* overview has been committed once
    overviewRow, rowRegistered, scrollState, overviewDue, rowFrame,
    overviewMounted

routeVars == <<hasWindow, publicUrl, locHash, locPath, routeMounted, routeKey>>
dataVars == <<portfolioMap, upperFirst, ROUTE_CONFIG, dataLoaded, dataRouteKey,
              resolvedFrom, categories, portfolioItems, renderError>>
dateVars == <<dateInput, dateText, dateParsed, dateKey>>
expVars == <<dataset, preferredGroups, expLoaded, experienceGroups>>
spyVars == <<enabled, sections, viewport, scrollY, effectRan, listening, ticking,
             rafQueue, activePortfolio, expandedCategories, justEvaluated,
             frameScrolls, frameResizes>>
cvVars == <<currentCv, defaultCv, CV_ASSETS, cvLoaded, cvSettings,
            cvAssetLoaded, cvAsset>>
bannerVars == <<bannerPage, bannerRect, innerWidth, bannerScrollY,
                bannerMounted, bannerListening, bannerFrame,
                floatingBannerState>>
buildVars == <<platform, processEnv, buildPhase, childCommand, childEnv,
               closeEvent, exitStatus>>
navVars == <<selectedContent, isMobileNavOpen, lastSection, resetDue,
             spyDue, spySetUp>>
pageVars == <<reRendered>>
floatVars == <<expandedWorks, bannerDue, activeCode>>
rowsVars == <<overviewRow, rowRegistered, scrollState, overviewDue,
              rowFrame, overviewMounted>>
vars == <<routeVars, dataVars, dateVars, expVars, spyVars, cvVars, bannerVars, buildVars, navVars, pageVars, floatVars, rowsVars>>

(***************************************************************************)
(* Strings as character sequences                                           *)
(***************************************************************************)

\* The smallest member of a non-empty set of indices.
MinOf(S) == CHOOSE j \in S : \A k \in S : j <= k

\* All sequences over S of length at most n.
BSeq(S, n) == UNION {[1..k -> S] : k \in 0..n}

Str_default == <<"d", "e", "f", "a", "u", "l", "t">>

UpperChars == {"A", "B", "C", "D", "E", "F", "G", "H", "I", "J", "K", "L", "M",
               "N", "O", "P", "Q", "R", "S", "T", "U", "V", "W", "X", "Y", "Z"}
LowerChars == {"a", "b", "c", "d", "e", "f", "g", "h", "i", "j", "k", "l", "m",
               "n", "o", "p", "q", "r", "s", "t", "u", "v", "w", "x", "y", "z"}
UpperSeq == <<"A", "B", "C", "D", "E", "F", "G", "H", "I", "J", "K", "L", "M",
              "N", "O", "P", "Q", "R", "S", "T", "U", "V", "W", "X", "Y", "Z">>
LowerSeq == <<"a", "b", "c", "d", "e", "f", "g", "h", "i", "j", "k", "l", "m",
              "n", "o", "p", "q", "r", "s", "t", "u", "v", "w", "x", "y", "z">>

\* String.prototype.toLowerCase, one character.
ToLowerChar(c) ==
    IF c \in UpperChars
    THEN LowerSeq[CHOOSE i \in 1..26 : UpperSeq[i] = c]
    ELSE c

\* String.prototype.toLowerCase.
ToLowerCase(s) == [i \in 1..Len(s) |-> ToLowerChar(s[i])]

\* The white space String.prototype.trim and the regex class \s remove.
WhiteSpace == {" ", "\t", "\n"}

\* Number of leading characters of s that lie in S.
RECURSIVE LeadCount(_, _)
LeadCount(s, S) ==
    IF s = <<>> \/ Head(s) \notin S THEN 0 ELSE 1 + LeadCount(Tail(s), S)

\* Number of trailing characters of s that lie in S.
RECURSIVE TrailCount(_, _)
TrailCount(s, S) ==
    IF s = <<>> \/ s[Len(s)] \notin S
    THEN 0
    ELSE 1 + TrailCount(SubSeq(s, 1, Len(s) - 1), S)

\* s without its leading and trailing characters that lie in S.
StripBoth(s, S) ==
    LET a == LeadCount(s, S)
    IN  IF a = Len(s) THEN <<>> ELSE SubSeq(s, a + 1, Len(s) - TrailCount(s, S))

\* String.prototype.trim.
Trim(s) == StripBoth(s, WhiteSpace)

\* s.split(sep)[0]: the prefix of s before the first occurrence of sep.
SplitFirst(s, sep) ==
    LET hits == {i \in 1..Len(s) : s[i] = sep}
    IN  IF hits = {}
        THEN s
        ELSE SubSeq(s, 1, (CHOOSE j \in hits : \A k \in hits : j <= k) - 1)

\* Whether pat occurs in s at index i.
OccursAt(s, pat, i) ==
    /\ i + Len(pat) - 1 <= Len(s)
    /\ SubSeq(s, i, i + Len(pat) - 1) = pat

\* s.replace(pat, '') with a string pattern: the first occurrence is removed.
ReplaceFirst(s, pat) ==
    LET hits == {i \in 1..Len(s) : OccursAt(s, pat, i)}
    IN  IF pat = <<>> \/ hits = {}
        THEN s
        ELSE LET i == CHOOSE j \in hits : \A k \in hits : j <= k
             IN  SubSeq(s, 1, i - 1) \o SubSeq(s, i + Len(pat), Len(s))

(***************************************************************************)
(* useRouteKey                                                               *)
(***************************************************************************)

\* s.replace(/^#\/?/, ''): a leading '#' and one '/' after it are removed.
StripHashPrefix(s) ==
    IF s # <<>> /\ Head(s) = "#"
    THEN IF Len(s) >= 2 /\ s[2] = "/" THEN SubSeq(s, 3, Len(s)) ELSE Tail(s)
    ELSE s

\* s.replace(/^\/+|\/+$/g, ''): leading and trailing slashes are removed.
StripSlashes(s) == StripBoth(s, {"/"})

hashSegment(hash) == SplitFirst(StripSlashes(StripHashPrefix(hash)), "/")

rawPath(pathname, base) == SplitFirst(StripSlashes(ReplaceFirst(pathname, base)), "/")

\* The resolver with the path consulted before the hash.
PathFirstKey(window, hash, pathname, base) ==
    IF ~window THEN Str_default
    ELSE IF rawPath(pathname, base) # <<>> THEN ToLowerCase(rawPath(pathname, base))
    ELSE IF hashSegment(hash) # <<>> THEN ToLowerCase(hashSegment(hash))
    ELSE Str_default

useRouteKey(window, hash, pathname, base) ==
    IF ~window THEN Str_default
    ELSE IF hashSegment(hash) # <<>> THEN ToLowerCase(hashSegment(hash))
    ELSE IF rawPath(pathname, base) # <<>> THEN ToLowerCase(rawPath(pathname, base))
    ELSE Str_default

\* Bounds of the locations tried.
MaxHashLen == 3
MaxPathLen == 2

UrlChars == {"/", "a", "B"}

\* process.env.PUBLIC_URL: unset in development, the base path in a build.
PublicUrls == {<<>>, <<"/", "p">>}

\* window.location.hash is empty or starts with '#'.
Hashes == {<<>>} \cup {<<"#">> \o b : b \in BSeq(UrlChars, MaxHashLen)}

\* window.location.pathname starts with the base path the site is served from.
PathRests == {<<"/">> \o b : b \in BSeq(UrlChars, MaxPathLen)}

\* The first render: useMemo(..., []) computes the key once.
MountRouteKey ==
    /\ ~routeMounted
    /\ routeMounted' = TRUE
    /\ routeKey' = useRouteKey(hasWindow, locHash, locPath, publicUrl)
    /\ UNCHANGED <<hasWindow, publicUrl, locHash, locPath>>
    /\ UNCHANGED <<dataVars, dateVars, expVars, spyVars, cvVars, bannerVars, buildVars, navVars, pageVars, floatVars, rowsVars>>

(***************************************************************************)
(* usePortfolioData: the static data                                        *)
(***************************************************************************)

\* Bounds of the route configurations tried.
MaxCats == 2
MaxList == 2
MaxRaw == 2

\* Keys of portfolioMap.json tried: "a" and "A" differ only in letter case.
CanonCodes == {<<"a">>, <<"A">>, <<"b">>}

\* Codes as written in portfolioRoutes.json: exact, padded, in another case, unknown.
RawCodes == {<<"a">>, <<" ", "A">>, <<"B", " ">>, <<"c">>}

NameOf(code) ==
    CASE code = <<"a">> -> "name-a"
      [] code = <<"A">> -> "name-A"
      [] OTHER -> "name-b"

\* portfolioMap.json: code -> display name, a name possibly empty.
PortfolioMaps ==
    UNION {{m \in [D -> {"", "name-a", "name-A", "name-b"}] :
               \A c \in D : m[c] \in {"", NameOf(c)}} : D \in SUBSET CanonCodes}

\* Category names of a route entry, in the order of the JSON object.
CategoryNames == <<"X", "Y", "Z">>

\* The categories object of a route entry as Object.entries lists it: the value of
\* each category is an array (isArray) of codes.
CategorySources ==
    {s \in BSeq([name : {CategoryNames[i] : i \in 1..MaxCats},
                 codes : BSeq(RawCodes, MaxList), isArray : {TRUE}], MaxCats) :
        \A i \in 1..Len(s) : s[i].name = CategoryNames[i]}

\* A route entry: its categories object may be missing (hasCategories FALSE).
RouteEntries ==
    {e \in [hasCategories : BOOLEAN, categories : CategorySources] :
        ~e.hasCategories => e.categories = <<>>}

\* Number of codes written in a categories object.
RECURSIVE RawCount(_)
RawCount(source) ==
    IF source = <<>> THEN 0 ELSE Len(Head(source).codes) + RawCount(Tail(source))

ConfigRawCount(config) ==
    (IF "default" \in DOMAIN config THEN RawCount(config["default"].categories) ELSE 0)
    + (IF "r" \in DOMAIN config THEN RawCount(config["r"].categories) ELSE 0)

\* portfolioRoutes.json: the default entry and one named route, either possibly
\* absent, with at most MaxRaw codes written in all.
RouteConfigs ==
    {c \in UNION {[D -> RouteEntries] : D \in SUBSET {"default", "r"}} :
        ConfigRawCount(c) <= MaxRaw}

\* A list entry of portfolioRoutes.json that is not a string (a number, null, an
\* object), and the codes of a malformed list: known, unknown, or not a string.
NotAString == <<"(not a string)">>
MalformedCodes == {<<"a">>, <<"B", " ">>, <<"c">>, NotAString}

\* Malformed categories objects: also a category whose value is not an array (a
\* string, a number, null, an object), which has no codes to read.
MalformedSources ==
    {s \in BSeq([name : {CategoryNames[i] : i \in 1..MaxCats},
                 codes : BSeq(MalformedCodes, MaxList), isArray : BOOLEAN], MaxCats) :
        \A i \in 1..Len(s) :
            /\ s[i].name = CategoryNames[i]
            /\ ~s[i].isArray => s[i].codes = <<>>}

MalformedEntries ==
    {e \in [hasCategories : BOOLEAN, categories : MalformedSources] :
        ~e.hasCategories => e.categories = <<>>}

\* portfolioRoutes.json with malformed entries, with at most MaxRaw list entries
\* written in all.
MalformedConfigs ==
    {c \in UNION {[D -> MalformedEntries] : D \in SUBSET {"default", "r"}} :
        ConfigRawCount(c) <= MaxRaw}

\* portfolioMap.json for the malformed configurations: the codes "a" and "b".
PlainMaps == {m \in PortfolioMaps : DOMAIN m \subseteq {<<"a">>, <<"b">>}}

\* Route keys a page is loaded with: "x" is in no configuration.
RouteKeys == {"default", "r", "x"}

(***************************************************************************)
(* usePortfolioData: buildCategories                                        *)
(***************************************************************************)

\* Rank of a letter in the alphabet, whatever its case.
LetterRank(c) == CHOOSE i \in 1..26 : LowerSeq[i] = ToLowerChar(c)

\* a.localeCompare(b) < 0 for strings of letters: alphabetical order first; strings
\* equal but for case are ordered by the case of their first differing letter, lower
\* case first or upper case first as the host's collation has it.
RECURSIVE AlphaLess(_, _)
AlphaLess(a, b) ==
    IF a = <<>> THEN b # <<>>
    ELSE IF b = <<>> THEN FALSE
    ELSE IF LetterRank(Head(a)) # LetterRank(Head(b))
         THEN LetterRank(Head(a)) < LetterRank(Head(b))
         ELSE AlphaLess(Tail(a), Tail(b))

RECURSIVE CaseLess(_, _)
CaseLess(a, b) ==
    IF a = <<>> \/ b = <<>> THEN FALSE
    ELSE IF Head(a) # Head(b)
         THEN IF upperFirst THEN Head(a) \in UpperChars ELSE Head(a) \in LowerChars
         ELSE CaseLess(Tail(a), Tail(b))

localeCompareLess(a, b) ==
    \/ AlphaLess(a, b)
    \/ ToLowerCase(a) = ToLowerCase(b) /\ CaseLess(a, b)

\* A finite set of strings as the sequence Array.prototype.sort makes of it.
RECURSIVE SortCodes(_)
SortFrom(m, S) == <<m>> \o SortCodes(S \ {m})

SortCodes(S) ==
    IF S = {}
    THEN <<>>
    ELSE SortFrom(CHOOSE x \in S : \A y \in S \ {x} : localeCompareLess(x, y), S)

\* Object.keys(portfolioMap).sort((a, b) => a.localeCompare(b))
defaultCodes == SortCodes(DOMAIN portfolioMap)

\* portfolioMap[code]: '' stands for undefined too, both being falsy where it is read.
getPortfolioName(code) ==
    IF code \in DOMAIN portfolioMap THEN portfolioMap[code] ELSE ""

\* The largest member of a non-empty set of indices.
MaxOf(S) == CHOOSE j \in S : \A k \in S : k <= j

\* The entry a Map built from [code.toLowerCase(), code] pairs holds for a key: a
\* later pair replaces an earlier one with the same key; <<>> stands for undefined.
lastMatch(codes, hits) == IF hits = {} THEN <<>> ELSE codes[MaxOf(hits)]

mapGet(codes, key) ==
    lastMatch(codes, {i \in 1..Len(codes) : ToLowerCase(codes[i]) = key})

\* normalized.get(key)
normalizedGet(key) == mapGet(defaultCodes, key)

\* The lookup key without the trim.
lookupKeyNoTrim(rawCode) == ToLowerCase(rawCode)

\* rawCode.trim().toLowerCase()
lookupKey(rawCode) == ToLowerCase(Trim(rawCode))

\* A seen-set that is never consulted.
seenNever(resolved, globalSeen) == FALSE

\* globalSeen.has(resolved)
seenHas(resolved, globalSeen) == resolved \in globalSeen

\* A name check that lets every name through.
nameMissingNever(name) == FALSE

\* !name
nameMissing(name) == name = ""

\* The early returns of the codes.forEach callback.
skipCode(resolved, name, globalSeen) ==
    \/ resolved = <<>>
    \/ seenHas(resolved, globalSeen)
    \/ nameMissing(name)

\* The item put after the items of the later codes: the list comes out reversed.
pushItemLast(resolved, name, categoryName, rest) ==
    [items |-> rest.items
                 \o <<[code |-> resolved, name |-> name, category |-> categoryName]>>,
     seen |-> rest.seen]

\* items.push({code, name, category}) before the items of the later codes; the
\* work detail of an item is left out.
pushItem(resolved, name, categoryName, rest) ==
    [items |-> <<[code |-> resolved, name |-> name, category |-> categoryName]>>
                  \o rest.items,
     seen |-> rest.seen]

\* codes.forEach(...) of one category: the items pushed and globalSeen afterwards.
RECURSIVE buildItems(_, _, _)
forEachCode(resolved, name, codes, categoryName, globalSeen) ==
    IF skipCode(resolved, name, globalSeen)
    THEN buildItems(codes, categoryName, globalSeen)
    ELSE pushItem(resolved, name, categoryName,
                  buildItems(codes, categoryName, globalSeen \cup {resolved}))

forEachResolved(resolved, codes, categoryName, globalSeen) ==
    forEachCode(resolved, getPortfolioName(resolved), codes, categoryName, globalSeen)

buildItems(codes, categoryName, globalSeen) ==
    IF codes = <<>>
    THEN [items |-> <<>>, seen |-> globalSeen]
    ELSE forEachResolved(normalizedGet(lookupKey(Head(codes))), Tail(codes),
                         categoryName, globalSeen)

\* Object.entries(source).forEach(...): a category is pushed when it has items.
RECURSIVE buildFrom(_, _)
pushCategory(categoryName, built, rest) ==
    IF built.items # <<>>
    THEN <<[name |-> categoryName, items |-> built.items]>> \o rest
    ELSE rest

forEachCategory(category, built, source) ==
    pushCategory(category.name, built, buildFrom(source, built.seen))

buildFrom(source, globalSeen) ==
    IF source = <<>>
    THEN <<>>
    ELSE IF ~Head(source).isArray
    THEN buildFrom(Tail(source), globalSeen)
    ELSE forEachCategory(Head(source),
                         buildItems(Head(source).codes, Head(source).name, globalSeen),
                         Tail(source))

\* rawCode.trim() of an entry that is not a string: a TypeError, as a number, null
\* or an object has no method trim.
trimThrows(rawCode) == rawCode = NotAString

\* codes.forEach(...) throws: the value is an array and one of its entries is not
\* a string.
categoryThrows(category) ==
    category.isArray /\ \E j \in 1..Len(category.codes) : trimThrows(category.codes[j])

\* buildCategories(entry.categories) throws.
buildThrows(entry) ==
    /\ entry.hasCategories
    /\ \E i \in 1..Len(entry.categories) : categoryThrows(entry.categories[i])

\* buildCategories(entry.categories)
buildCategories(entry) ==
    IF ~entry.hasCategories THEN <<>> ELSE buildFrom(entry.categories, {})

(***************************************************************************)
(* usePortfolioData: categories and portfolioItems                          *)
(***************************************************************************)

EmptyEntry == [hasCategories |-> FALSE, categories |-> <<>>]

\* ROUTE_CONFIG.default ?? {}
DEFAULT_ROUTE_ENTRY ==
    IF "default" \in DOMAIN ROUTE_CONFIG THEN ROUTE_CONFIG["default"] ELSE EmptyEntry

\* ROUTE_CONFIG[routeKey] ?? {}
currentEntry(key) ==
    IF key \in DOMAIN ROUTE_CONFIG THEN ROUTE_CONFIG[key] ELSE EmptyEntry

\* currentEntry === DEFAULT_ROUTE_ENTRY: the same object only for the configured default.
isDefaultEntry(key) == key = "default" /\ "default" \in DOMAIN ROUTE_CONFIG

FallbackCategoryName == "zuopinji"

\* defaultCodes.map(...).filter(...): an item for every code with a name.
RECURSIVE fallbackItems(_)
fallbackItem(code, name, rest) ==
    IF nameMissing(name)
    THEN rest
    ELSE <<[code |-> code, name |-> name, category |-> FallbackCategoryName]>> \o rest

fallbackItems(codes) ==
    IF codes = <<>>
    THEN <<>>
    ELSE fallbackItem(Head(codes), getPortfolioName(Head(codes)),
                      fallbackItems(Tail(codes)))

\* fallbackItems.length ? [{name, items}] : []
fallbackCategories(items) ==
    IF items # <<>> THEN <<[name |-> FallbackCategoryName, items |-> items]>> ELSE <<>>

synthesized == fallbackCategories(fallbackItems(defaultCodes))

\* The categories memo with the fallback to the default route left out.
chooseWithoutDefault(own, ofDefault, sameEntry, fallback) ==
    IF own # <<>>
    THEN [from |-> "route", categories |-> own]
    ELSE [from |-> "synthesized", categories |-> fallback]

\* The categories memo: the route's categories, else the default route's, else the
\* synthesized category; "from" records the branch taken.
chooseCategories(own, ofDefault, sameEntry, fallback) ==
    IF own # <<>>
    THEN [from |-> "route", categories |-> own]
    ELSE IF ~sameEntry /\ ofDefault # <<>>
         THEN [from |-> "default", categories |-> ofDefault]
         ELSE [from |-> "synthesized", categories |-> fallback]

usePortfolioCategories(key) ==
    chooseCategories(buildCategories(currentEntry(key)),
                     buildCategories(DEFAULT_ROUTE_ENTRY),
                     isDefaultEntry(key), synthesized)

\* The categories memo throws: building the route's categories does, or these are
\* empty and building the default route's categories does.
defaultThrows(own, sameEntry) ==
    own = <<>> /\ ~sameEntry /\ buildThrows(DEFAULT_ROUTE_ENTRY)

categoriesThrow(key) ==
    \/ buildThrows(currentEntry(key))
    \/ defaultThrows(buildCategories(currentEntry(key)), isDefaultEntry(key))

\* categories.flatMap((category) => category.items)
RECURSIVE flatItems(_)
flatItems(cats) ==
    IF cats = <<>> THEN <<>> ELSE Head(cats).items \o flatItems(Tail(cats))

\* .filter(...) with the seen set: the first item of each code is kept.
RECURSIVE dedupeItems(_, _)
dedupeItems(items, seen) ==
    IF items = <<>> THEN <<>>
    ELSE IF Head(items).code \in seen
         THEN dedupeItems(Tail(items), seen)
         ELSE <<Head(items)>> \o dedupeItems(Tail(items), seen \cup {Head(items).code})

usePortfolioItems(cats) == dedupeItems(flatItems(cats), {})

\* The memos of usePortfolioData as the first render leaves them.
SetPortfolio(key, resolved) ==
    /\ renderError' = FALSE
    /\ dataLoaded' = TRUE
    /\ dataRouteKey' = key
    /\ resolvedFrom' = resolved.from
    /\ categories' = resolved.categories
    /\ portfolioItems' = usePortfolioItems(resolved.categories)

\* The render fails: the error thrown in the categories memo leaves the hook
\* without a result.
FailRender(key) ==
    /\ renderError' = TRUE
    /\ dataRouteKey' = key
    /\ UNCHANGED <<dataLoaded, resolvedFrom, categories, portfolioItems>>

\* The first render of Main with the route key: the memos of usePortfolioData.
LoadPortfolio(key) ==
    /\ ~dataLoaded
    /\ ~renderError
    /\ IF categoriesThrow(key)
       THEN FailRender(key)
       ELSE SetPortfolio(key, usePortfolioCategories(key))
    /\ UNCHANGED <<portfolioMap, upperFirst, ROUTE_CONFIG>>
    /\ UNCHANGED <<routeVars, dateVars, expVars, spyVars, cvVars, bannerVars, buildVars, navVars, pageVars, floatVars, rowsVars>>

(***************************************************************************)
(* useExperienceData: parseDateKey                                          *)
(***************************************************************************)

DigitSeq == <<"0", "1", "2", "3", "4", "5", "6", "7", "8", "9">>
Digits == {DigitSeq[i] : i \in 1..10}
Letters == UpperChars \cup LowerChars

\* The value of a digit character.
DigitVal(c) == (CHOOSE i \in 1..10 : DigitSeq[i] = c) - 1

\* parseInt(text, 10) || 0 of a text of digits.
RECURSIVE parseInt(_)
parseInt(text) ==
    IF text = <<>> THEN 0
    ELSE 10 * parseInt(SubSeq(text, 1, Len(text) - 1)) + DigitVal(text[Len(text)])

\* MONTH_MAP, as its entries.
MONTH_MAP ==
    <<[name |-> <<"j", "a", "n">>, month |-> 1],
      [name |-> <<"j", "a", "n", "u", "a", "r", "y">>, month |-> 1],
      [name |-> <<"f", "e", "b">>, month |-> 2],
      [name |-> <<"f", "e", "b", "r", "u", "a", "r", "y">>, month |-> 2],
      [name |-> <<"m", "a", "r">>, month |-> 3],
      [name |-> <<"m", "a", "r", "c", "h">>, month |-> 3],
      [name |-> <<"a", "p", "r">>, month |-> 4],
      [name |-> <<"a", "p", "r", "i", "l">>, month |-> 4],
      [name |-> <<"m", "a", "y">>, month |-> 5],
      [name |-> <<"j", "u", "n">>, month |-> 6],
      [name |-> <<"j", "u", "n", "e">>, month |-> 6],
      [name |-> <<"j", "u", "l">>, month |-> 7],
      [name |-> <<"j", "u", "l", "y">>, month |-> 7],
      [name |-> <<"a", "u", "g">>, month |-> 8],
      [name |-> <<"a", "u", "g", "u", "s", "t">>, month |-> 8],
      [name |-> <<"s", "e", "p">>, month |-> 9],
      [name |-> <<"s", "e", "p", "t">>, month |-> 9],
      [name |-> <<"s", "e", "p", "t", "e", "m", "b", "e", "r">>, month |-> 9],
      [name |-> <<"o", "c", "t">>, month |-> 10],
      [name |-> <<"o", "c", "t", "o", "b", "e", "r">>, month |-> 10],
      [name |-> <<"n", "o", "v">>, month |-> 11],
      [name |-> <<"n", "o", "v", "e", "m", "b", "e", "r">>, month |-> 11],
      [name |-> <<"d", "e", "c">>, month |-> 12],
      [name |-> <<"d", "e", "c", "e", "m", "b", "e", "r">>, month |-> 12]>>

\* MONTH_MAP[monthName] ?? 1
monthOfEntries(hits) == IF hits = {} THEN 1 ELSE MONTH_MAP[MinOf(hits)].month

monthOfName(monthName) ==
    monthOfEntries({i \in 1..Len(MONTH_MAP) : MONTH_MAP[i].name = monthName})

\* A two-digit year read with the pivot on the wrong side of 50.
pivotAbove(year) ==
    IF year < 100 /\ year > 0 THEN year + (IF year > 50 THEN 1900 ELSE 2000) ELSE year

\* if (year < 100 && year > 0) year += year >= 50 ? 1900 : 2000
pivotYear(year) ==
    IF year < 100 /\ year > 0 THEN year + (IF year >= 50 THEN 1900 ELSE 2000) ELSE year

\* The separators [-/\s] between the month name and the year.
MonthSeps == {"-", "/"} \cup WhiteSpace

\* trimmed.match(/^([A-Za-z]+)[-/\s]+(\d{2,4})$/): letters, separators, then two to
\* four digits up to the end; the three classes share no character, so the match,
\* when there is one, is the only way to cut the text.
monthMatchCut(text, nLetters, nSeps) ==
    [matched |-> /\ nLetters >= 1
                 /\ nSeps >= 1
                 /\ Len(text) - nLetters - nSeps \in 2..4
                 /\ \A i \in (nLetters + nSeps + 1)..Len(text) : text[i] \in Digits,
     name |-> SubSeq(text, 1, nLetters),
     year |-> SubSeq(text, nLetters + nSeps + 1, Len(text))]

monthMatchAfter(text, nLetters) ==
    monthMatchCut(text, nLetters,
                  LeadCount(SubSeq(text, nLetters + 1, Len(text)), MonthSeps))

monthMatch(text) == monthMatchAfter(text, LeadCount(text, Letters))

\* year * 100 + month of a month-name match.
monthNameKey(match) ==
    pivotYear(parseInt(match.year)) * 100 + monthOfName(ToLowerCase(match.name))

\* .replace(/年/g, '/').replace(/月/g, '').replace(/\./g, '/').replace(/-/g, '/');
\* the two CJK characters are written "nian" and "yue".
RECURSIVE cleanDate(_)
cleanChar(c) ==
    CASE c = "yue" -> <<>>
      [] c \in {"nian", ".", "-"} -> <<"/">>
      [] OTHER -> <<c>>

cleanDate(text) ==
    IF text = <<>> THEN <<>> ELSE cleanChar(Head(text)) \o cleanDate(Tail(text))

\* cleaned.split(/[^0-9]/).filter(Boolean): the maximal runs of digits.
RECURSIVE digitRuns(_)
digitRunsFrom(text, nDigits) ==
    IF nDigits = 0
    THEN digitRuns(Tail(text))
    ELSE <<SubSeq(text, 1, nDigits)>> \o digitRuns(SubSeq(text, nDigits + 1, Len(text)))

digitRuns(text) ==
    IF text = <<>> THEN <<>> ELSE digitRunsFrom(text, LeadCount(text, Digits))

\* Math.min(Math.max(month, 1), 12)
clampMonth(month) == IF month < 1 THEN 1 ELSE IF month > 12 THEN 12 ELSE month

\* parseInt(parts[1], 10) || 12
orTwelve(month) == IF month = 0 THEN 12 ELSE month

\* The month of the numeric form with the second part never read.
monthOfPartsIgnored(parts) == 12

\* parts.length > 1 ? parseInt(parts[1], 10) || 12 : 12
monthOfParts(parts) == IF Len(parts) > 1 THEN orTwelve(parseInt(parts[2])) ELSE 12

\* The key of the numeric form without its guard: no run of digits reads as year 0.
numericKeyUnguarded(parts) ==
    pivotYear(parseInt(IF parts = <<>> THEN <<>> ELSE parts[1])) * 100
      + clampMonth(monthOfParts(parts))

\* The key of the numeric form, from its runs of digits.
numericKey(parts) ==
    IF parts = <<>>
    THEN 0
    ELSE pivotYear(parseInt(parts[1])) * 100 + clampMonth(monthOfParts(parts))

keyOfMatch(match, text) ==
    IF match.matched THEN monthNameKey(match) ELSE numericKey(digitRuns(cleanDate(text)))

parseTrimmed(text) == keyOfMatch(monthMatch(text), text)

parseDateKey(value) == IF value = <<>> THEN 0 ELSE parseTrimmed(Trim(value))

\* The date texts tried.  A numeric text is the year in full, a separator and the
\* month, with or without a leading zero; a month-name text is a key of MONTH_MAP
\* in one of three letter cases, a separator and the year in full; the other texts
\* are taken as they are.  The short forms are the same two with a year of the
\* century written with two digits.
ShortYears == {1, 49, 50, 99}
Years == {999, 1987, 2023, 9999}
NumericSeps == {"/", "-", "."}
NameSeps == {" ", "-", "/"}
LetterCases == {"lower", "Capitalised", "UPPER"}
OtherTexts ==
    {<<>>, <<"n", "o", "w">>, <<"2", "0", "2", "1">>, <<"2", "3", "/", "5">>,
     <<"2", "0", "2", "3", "nian", "5", "yue">>,
     <<" ", "2", "0", "2", "3", ".", "0", "5", " ">>}

\* The decimal digits of a natural number.
RECURSIVE writeDecimal(_)
writeDecimal(n) ==
    IF n < 10 THEN <<DigitSeq[n + 1]>>
    ELSE writeDecimal(n \div 10) \o <<DigitSeq[(n % 10) + 1]>>

\* A year of the century with two digits.
writeShortYear(yy) == IF yy < 10 THEN <<"0">> \o writeDecimal(yy) ELSE writeDecimal(yy)

writeMonth(month, padded) ==
    IF padded /\ month < 10 THEN <<"0">> \o writeDecimal(month) ELSE writeDecimal(month)

ToUpperChar(c) ==
    IF c \in LowerChars
    THEN UpperSeq[CHOOSE i \in 1..26 : LowerSeq[i] = c]
    ELSE c

writeName(name, letterCase) ==
    [i \in 1..Len(name) |->
        IF letterCase = "UPPER" \/ (letterCase = "Capitalised" /\ i = 1)
        THEN ToUpperChar(name[i])
        ELSE name[i]]

DateInputs ==
    [form : {"numeric"}, year : Years, month : 1..12, sep : NumericSeps,
     padded : BOOLEAN, entry : {0}, letterCase : {"lower"}, text : {<<>>}]
     \cup {[form |-> "name", year |-> y, month |-> MONTH_MAP[k].month, sep |-> s,
            padded |-> FALSE, entry |-> k, letterCase |-> c, text |-> <<>>] :
              y \in Years, k \in 1..Len(MONTH_MAP), s \in NameSeps, c \in LetterCases}
     \cup [form : {"numeric-short"}, year : ShortYears, month : 1..12, sep : NumericSeps,
           padded : BOOLEAN, entry : {0}, letterCase : {"lower"}, text : {<<>>}]
     \cup {[form |-> "name-short", year |-> y, month |-> MONTH_MAP[k].month, sep |-> s,
            padded |-> FALSE, entry |-> k, letterCase |-> c, text |-> <<>>] :
              y \in ShortYears, k \in 1..Len(MONTH_MAP), s \in NameSeps, c \in LetterCases}
     \cup [form : {"other"}, year : {0}, month : {0}, sep : {""}, padded : {FALSE},
           entry : {0}, letterCase : {"lower"}, text : OtherTexts]

writeDate(input) ==
    CASE input.form = "numeric" ->
           writeDecimal(input.year) \o <<input.sep>>
            \o writeMonth(input.month, input.padded)
      [] input.form = "name" ->
           writeName(MONTH_MAP[input.entry].name, input.letterCase) \o <<input.sep>>
            \o writeDecimal(input.year)
      [] input.form = "numeric-short" ->
           writeShortYear(input.year) \o <<input.sep>>
            \o writeMonth(input.month, input.padded)
      [] input.form = "name-short" ->
           writeName(MONTH_MAP[input.entry].name, input.letterCase) \o <<input.sep>>
            \o writeShortYear(input.year)
      [] OTHER -> input.text

\* A call of parseDateKey on the date text.
ParseDate ==
    /\ ~dateParsed
    /\ dateParsed' = TRUE
    /\ dateKey' = parseDateKey(dateText)
    /\ UNCHANGED <<dateInput, dateText>>
    /\ UNCHANGED <<routeVars, dataVars, expVars, spyVars, cvVars, bannerVars, buildVars, navVars, pageVars, floatVars, rowsVars>>

(***************************************************************************)
(* useExperienceData: sortExperiences and the visibility filter             *)
(***************************************************************************)

\* Bound of the experience datasets tried.
MaxEntries == 3

\* Date texts of experienceData.json: two spellings of one month, a bare year, and a
\* text with no year in it.
BeginTexts == {<<"2", "0", "2", "1">>, <<"2", "0", "2", "3", "/", "0", "5">>}
EndTexts == {<<"M", "a", "y", " ", "2", "0", "2", "3">>, <<"2", "0", "2", "1">>,
             <<"n", "o", "w">>}

\* An entry's visibility tags: shown by default, or tagged for a group.
VisibilityTags ==
    {[showDefault |-> TRUE, showGroups |-> <<>>],
     [showDefault |-> FALSE, showGroups |-> <<"group-a">>]}

ExperienceTypes == {"work", "education"}

\* dataset.typeOrder: the type "education" is not in it.
typeOrder == <<"work">>

\* ExperienceEntry, without its organisation, role, description and related works,
\* which nothing here reads.
ExperienceEntries ==
    [type : ExperienceTypes, begin : BeginTexts, end : EndTexts,
     visibility : VisibilityTags]

\* dataset.entries: each entry with its position, which tells apart entries that
\* are equal field by field.
entriesOf(f, n) == [i \in 1..n |-> [index |-> i, entry |-> f[i]]]

\* cvSettings.groups as passed to useExperienceData; <<>> stands for null and for
\* the empty list, which the code treats alike.
PreferredGroups == {<<>>, <<"show_all">>, <<"group-a">>, <<" ", "group-a", "group-a">>}

\* The entries tried for the visibility filter and for dates that do not parse:
\* the tags above, an entry with no tag at all and an entry tagged 'show_default'
\* by name; an entry dated by a month, one with a begin year only, and one with no
\* date that parses.
AllVisibilityTags ==
    VisibilityTags
     \cup {[showDefault |-> FALSE, showGroups |-> <<>>],
           [showDefault |-> FALSE, showGroups |-> <<"show_default">>]}

DatedPairs ==
    {[begin |-> <<"2", "0", "2", "3", "/", "0", "5">>,
      end |-> <<"M", "a", "y", " ", "2", "0", "2", "3">>],
     [begin |-> <<"2", "0", "2", "1">>, end |-> <<"n", "o", "w">>],
     [begin |-> <<"t", "b", "d">>, end |-> <<"n", "o", "w">>]}

TaggedEntries ==
    {[type |-> t, begin |-> d.begin, end |-> d.end, visibility |-> v] :
       t \in ExperienceTypes, d \in DatedPairs, v \in AllVisibilityTags}

\* The groups tried for the visibility filter: also blank names only, and the
\* wildcard after another name.
FilterGroups == PreferredGroups \cup {<<" ", "">>, <<"group-b", "show_all">>}

\* parseDateKey(item.end) || parseDateKey(item.begin)
orBegin(endKey, item) == IF endKey # 0 THEN endKey ELSE parseDateKey(item.entry.begin)

\* ({item, endKey, beginKey}) of one item.
withKey(item) ==
    [item |-> item,
     endKey |-> orBegin(parseDateKey(item.entry.end), item),
     beginKey |-> parseDateKey(item.entry.begin)]

\* The comparator with its operands exchanged: ascending.
compareAscending(a, b) ==
    IF b.endKey # a.endKey THEN a.endKey - b.endKey ELSE a.beginKey - b.beginKey

\* The comparator without its tie-break: equal end keys compare equal.
compareEndOnly(a, b) == b.endKey - a.endKey

\* The comparator of withKeys.sort.
compareKeys(a, b) ==
    IF b.endKey # a.endKey THEN b.endKey - a.endKey ELSE b.beginKey - a.beginKey

\* Array.prototype.sort, which is stable: an element is placed after every element
\* already placed that the comparator does not put after it.
RECURSIVE insertSorted(_, _)
insertSorted(x, sorted) ==
    IF sorted = <<>> THEN <<x>>
    ELSE IF compareKeys(Head(sorted), x) <= 0
         THEN <<Head(sorted)>> \o insertSorted(x, Tail(sorted))
         ELSE <<x>> \o sorted

RECURSIVE sortKeyed(_)
sortKeyed(keyed) ==
    IF keyed = <<>> THEN <<>>
    ELSE insertSorted(keyed[Len(keyed)], sortKeyed(SubSeq(keyed, 1, Len(keyed) - 1)))

\* items.map((item) => ({item, endKey, beginKey}))
RECURSIVE withKeys(_)
withKeys(items) ==
    IF items = <<>> THEN <<>> ELSE <<withKey(Head(items))>> \o withKeys(Tail(items))

\* withKeys.map(({item}) => item)
RECURSIVE itemsOf(_)
itemsOf(keyed) ==
    IF keyed = <<>> THEN <<>> ELSE <<Head(keyed).item>> \o itemsOf(Tail(keyed))

sortExperiences(items) == itemsOf(sortKeyed(withKeys(items)))

\* group?.trim() of the group names tried: a blank name becomes empty.
trimGroup(group) == IF group \in {"", " "} THEN "" ELSE group

\* Array.from(new Set(cleaned)): the first occurrence of each name is kept.
RECURSIVE uniqueGroups(_, _)
uniqueGroups(cleaned, seen) ==
    IF cleaned = <<>> THEN <<>>
    ELSE IF Head(cleaned) \in seen THEN uniqueGroups(Tail(cleaned), seen)
    ELSE <<Head(cleaned)>> \o uniqueGroups(Tail(cleaned), seen \cup {Head(cleaned)})

\* normaliseGroups; <<>> stands for null, which is also what an empty list gives.
normaliseGroups(groups) ==
    uniqueGroups(SelectSeq([i \in 1..Len(groups) |-> trimGroup(groups[i])],
                           LAMBDA g : g # ""), {})

\* The filter with no default group: no group supplied gives the empty filter.
filterSetAsGiven(groups) == {groups[i] : i \in 1..Len(groups)}

\* normalisedGroups && normalisedGroups.length > 0 ? normalisedGroups : ['show_default']
filterSet(groups) ==
    IF groups # <<>> THEN {groups[i] : i \in 1..Len(groups)} ELSE {"show_default"}

\* entry.showGroups?.length ? entry.showGroups : entry.showDefault ? ['show_default'] : []
entryGroups(tags) ==
    IF tags.showGroups # <<>> THEN {tags.showGroups[i] : i \in 1..Len(tags.showGroups)}
    ELSE IF tags.showDefault THEN {"show_default"}
    ELSE {}

\* shouldInclude
includedBy(groupsOfEntry, filter) ==
    \/ "show_all" \in filter
    \/ groupsOfEntry \cap filter # {}
    \/ groupsOfEntry = {} /\ "show_default" \in filter

shouldInclude(entry, filter) == includedBy(entryGroups(entry.visibility), filter)

\* groupedEntries.get(typeName): the included entries of a type, in dataset order.
entriesOfType(entries, typeName, filter) ==
    SelectSeq(entries, LAMBDA e : e.entry.type = typeName /\ shouldInclude(e.entry, filter))

\* groups.push({type, items: sortExperiences(items)}) unless there are no items.
groupOf(typeName, items) ==
    IF items = <<>> THEN <<>> ELSE <<[type |-> typeName, items |-> sortExperiences(items)]>>

\* The groups of the types of a list, in its order.
RECURSIVE groupsOfTypes(_, _, _)
groupsOfTypes(types, entries, filter) ==
    IF types = <<>> THEN <<>>
    ELSE groupOf(Head(types), entriesOfType(entries, Head(types), filter))
          \o groupsOfTypes(Tail(types), entries, filter)

\* The types not in typeOrder, in the order of their first included entry (the
\* insertion order of the groupedEntries Map).
RECURSIVE remainingTypes(_, _, _)
remainingTypes(entries, filter, seen) ==
    IF entries = <<>> THEN <<>>
    ELSE IF \/ Head(entries).entry.type \in seen
            \/ ~shouldInclude(Head(entries).entry, filter)
         THEN remainingTypes(Tail(entries), filter, seen)
         ELSE <<Head(entries).entry.type>>
               \o remainingTypes(Tail(entries), filter,
                                 seen \cup {Head(entries).entry.type})

groupsWith(entries, filter) ==
    groupsOfTypes(typeOrder, entries, filter)
     \o groupsOfTypes(remainingTypes(entries, filter,
                                     {typeOrder[i] : i \in 1..Len(typeOrder)}),
                      entries, filter)

useExperienceData(entries, groups) ==
    groupsWith(entries, filterSet(normaliseGroups(groups)))

\* The first render of Main: the memo of useExperienceData, for the groups of the
\* CV settings.
LoadExperience(groups) ==
    /\ ~expLoaded
    /\ expLoaded' = TRUE
    /\ preferredGroups' = groups
    /\ experienceGroups' = useExperienceData(dataset, groups)
    /\ UNCHANGED dataset
    /\ UNCHANGED <<routeVars, dataVars, dateVars, spyVars, cvVars, bannerVars, buildVars, navVars, pageVars, floatVars, rowsVars>>

(***************************************************************************)
(* usePortfolioScrollSpy                                                    *)
(***************************************************************************)

\* Bounds of the pages tried: the sections of a page, the scroll positions (in steps
\* of ten), and the events delivered between two animation frames.
MaxSections == 3
MaxScrollSteps == 6
MaxFrameEvents == 2

SectionHeights == {10, 30}
SectionGaps == {0, 20}

\* viewportHeight * 0.35 and viewportHeight * 0.75, as hundredths.
FocusTopPct == 35
FocusBottomPct == 75

\* "null" stands for the null of PortfolioCode | null.
Null == "null"

\* The codes of portfolioItems, in their order, and the category of each in
\* categoriesWithMatrix.
ItemCodes == <<"w1", "w2", "w3", "w4">>
categoriesWithMatrix ==
    <<[name |-> "X", codes |-> {"w1"}], [name |-> "Y", codes |-> {"w2", "w3", "w4"}]>>

\* The viewport: innerHeight, whether (max-width: 768px) matches, and the height of
\* the mobile navigation bar stored in --mobile-nav-height.
Viewports ==
    {[height |-> 20, mobile |-> TRUE, navHeight |-> 5],
     [height |-> 20, mobile |-> FALSE, navHeight |-> 0],
     [height |-> 40, mobile |-> FALSE, navHeight |-> 0]}

ScrollPositions == {10 * k : k \in 0..MaxScrollSteps}

\* The sections in document order, each below the one before it: element
\* portfolio-<code> with its top and bottom in document coordinates.
RECURSIVE layoutFrom(_, _, _, _)
layoutFrom(gaps, heights, index, above) ==
    IF index > Len(gaps) THEN <<>>
    ELSE <<[code |-> ItemCodes[index],
            top |-> above + gaps[index],
            bottom |-> above + gaps[index] + heights[index]]>>
          \o layoutFrom(gaps, heights, index + 1, above + gaps[index] + heights[index])

Layouts ==
    UNION {{layoutFrom(gaps, heights, 1, 0) :
              gaps \in [1..n -> SectionGaps], heights \in [1..n -> SectionHeights]} :
           n \in 0..MaxSections}

\* getScrollOffset of Main.
getScrollOffset(view) == IF ~view.mobile THEN 0 ELSE view.navHeight

\* element.getBoundingClientRect()
getBoundingClientRect(section, y) ==
    [top |-> section.top - y, bottom |-> section.bottom - y]

\* adjustedTop <= focusBottom && adjustedBottom >= focusTop
isWithinFocus(rect, offset, viewportHeight) ==
    /\ (rect.top - offset) * 100 <= viewportHeight * FocusBottomPct
    /\ (rect.bottom - offset) * 100 >= viewportHeight * FocusTopPct

\* A test that also passes a top on the bottom of the band.
topAtOrBeforeFocusBottom(rect, offset, viewportHeight) ==
    (rect.top - offset) * 100 <= viewportHeight * FocusBottomPct

\* rect.top - offset < focusBottom
topBeforeFocusBottom(rect, offset, viewportHeight) ==
    (rect.top - offset) * 100 < viewportHeight * FocusBottomPct

\* The first assignment left out: the candidate is never set to the section itself.
candidateKept(candidate, code) == candidate

\* if (candidate === null) candidate = code
candidateOrCode(candidate, code) == IF candidate = Null THEN code ELSE candidate

\* if (nextSection && nextSection top - offset < focusBottom) candidate = nextSection.code
candidateOrNext(candidate, secs, index, y, offset, viewportHeight) ==
    IF /\ index + 1 <= Len(secs)
       /\ topBeforeFocusBottom(getBoundingClientRect(secs[index + 1], y), offset,
                               viewportHeight)
    THEN secs[index + 1].code
    ELSE candidate

\* The body of sections.forEach for one section.
visitSection(candidate, secs, index, y, offset, viewportHeight) ==
    IF isWithinFocus(getBoundingClientRect(secs[index], y), offset, viewportHeight)
    THEN candidateOrNext(candidateOrCode(candidate, secs[index].code),
                         secs, index, y, offset, viewportHeight)
    ELSE candidate

RECURSIVE forEachSection(_, _, _, _, _, _)
forEachSection(candidate, secs, index, y, offset, viewportHeight) ==
    IF index > Len(secs) THEN candidate
    ELSE forEachSection(visitSection(candidate, secs, index, y, offset, viewportHeight),
                        secs, index + 1, y, offset, viewportHeight)

\* if (candidate === null && sections.length) { the last section, if its top is
\* before the bottom of the band }
lastSectionFallback(candidate, secs, y, offset, viewportHeight) ==
    IF /\ candidate = Null
       /\ Len(secs) > 0
       /\ topBeforeFocusBottom(getBoundingClientRect(secs[Len(secs)], y), offset,
                               viewportHeight)
    THEN secs[Len(secs)].code
    ELSE candidate

\* The candidate of updateActive.
candidateFor(secs, y, offset, viewportHeight) ==
    lastSectionFallback(forEachSection(Null, secs, 1, y, offset, viewportHeight),
                        secs, y, offset, viewportHeight)

candidateOf(secs, y, view) ==
    candidateFor(secs, y, getScrollOffset(view), view.height)

\* categoriesWithMatrix.find((category) => Boolean(category.itemsMap[candidate]))?.name
categoryHits(code) ==
    {i \in 1..Len(categoriesWithMatrix) : code \in categoriesWithMatrix[i].codes}

sectionCategoryAt(hits) == IF hits = {} THEN Null ELSE categoriesWithMatrix[MinOf(hits)].name

sectionCategory(code) == sectionCategoryAt(categoryHits(code))

\* An updater that never collapses the other categories.
expandedAppended(prev, categoryName, collapseOthers, already) ==
    IF already THEN prev ELSE Append(prev, categoryName)

\* The updater of setExpandedCategories in updateExpandedCategories of Main.
expandedWith(prev, categoryName, collapseOthers, already) ==
    IF collapseOthers
    THEN IF already /\ Len(prev) = 1 /\ prev[1] = categoryName THEN prev
         ELSE <<categoryName>>
    ELSE IF already THEN prev ELSE Append(prev, categoryName)

updateExpandedCategories(prev, categoryName, collapseOthers) ==
    IF categoryName = Null THEN prev
    ELSE expandedWith(prev, categoryName, collapseOthers,
                      \E i \in 1..Len(prev) : prev[i] = categoryName)

\* if (candidate) { updateExpandedCategories(...) }
expandedAfter(prev, candidate, view) ==
    IF candidate # Null
    THEN updateExpandedCategories(prev, sectionCategory(candidate), ~view.mobile)
    ELSE prev

\* updateActive with the viewport as it is when it runs: onActiveChange(candidate) is
\* setActivePortfolio(candidate).
applyActive(candidate, view) ==
    /\ activePortfolio' = candidate
    /\ expandedCategories' = expandedAfter(expandedCategories, candidate, view)
    /\ justEvaluated' = TRUE

updateActive(y, view) == applyActive(candidateOf(sections, y, view), view)

\* The effect of usePortfolioScrollSpy: nothing when disabled or when no section is
\* found; otherwise one evaluation, then the two listeners.
MountScrollSpy ==
    /\ ~effectRan
    /\ effectRan' = TRUE
    /\ listening' = (enabled /\ Len(sections) > 0)
    /\ IF enabled /\ Len(sections) > 0
       THEN updateActive(scrollY, viewport)
       ELSE UNCHANGED <<activePortfolio, expandedCategories, justEvaluated>>
    /\ UNCHANGED <<enabled, sections, viewport, scrollY, ticking, rafQueue,
                   frameScrolls, frameResizes>>
    /\ UNCHANGED <<routeVars, dataVars, dateVars, expVars, cvVars, bannerVars, buildVars, navVars, pageVars, floatVars, rowsVars>>

\* handleScroll: a scroll event moves the page; a frame callback is requested
\* unless one is pending.
ScrollEvent(y) ==
    /\ listening
    /\ y # scrollY
    /\ frameScrolls + frameResizes < MaxFrameEvents
    /\ scrollY' = y
    /\ frameScrolls' = frameScrolls + 1
    /\ ticking' = TRUE
    /\ rafQueue' = IF ~ticking THEN rafQueue + 1 ELSE rafQueue
    /\ justEvaluated' = FALSE
    /\ UNCHANGED <<enabled, sections, viewport, effectRan, listening, activePortfolio,
                   expandedCategories, frameResizes>>
    /\ UNCHANGED <<routeVars, dataVars, dateVars, expVars, cvVars, bannerVars, buildVars, navVars, pageVars, floatVars, rowsVars>>

\* handleResize: a resize event changes the viewport and updateActive runs at once.
ResizeEvent(view) ==
    /\ listening
    /\ view # viewport
    /\ frameScrolls + frameResizes < MaxFrameEvents
    /\ viewport' = view
    /\ frameResizes' = frameResizes + 1
    /\ updateActive(scrollY, view)
    /\ UNCHANGED <<enabled, sections, scrollY, effectRan, listening, ticking, rafQueue,
                   frameScrolls>>
    /\ UNCHANGED <<routeVars, dataVars, dateVars, expVars, cvVars, bannerVars, buildVars, navVars, pageVars, floatVars, rowsVars>>

\* A callback that leaves ticking as it is.
tickingKept(queue, tick) == tick

\* ticking = false at the end of the callback of requestAnimationFrame.
tickingAfterFrame(queue, tick) == IF queue > 0 THEN FALSE ELSE tick

\* The next animation frame: the requested callback, if any, runs updateActive and
\* clears ticking.
AnimationFrame ==
    /\ listening
    /\ frameScrolls + frameResizes > 0
    /\ IF rafQueue > 0
       THEN updateActive(scrollY, viewport)
       ELSE UNCHANGED <<activePortfolio, expandedCategories, justEvaluated>>
    /\ ticking' = tickingAfterFrame(rafQueue, ticking)
    /\ rafQueue' = 0
    /\ frameScrolls' = 0
    /\ frameResizes' = 0
    /\ UNCHANGED <<enabled, sections, viewport, scrollY, effectRan, listening>>
    /\ UNCHANGED <<routeVars, dataVars, dateVars, expVars, cvVars, bannerVars, buildVars, navVars, pageVars, floatVars, rowsVars>>
(***************************************************************************)
(* The CV settings of usePortfolioData: normaliseCvRoute, cvSettings, and  *)
(* the earlier cvAsset of utils/portfolioAssets.ts.  A file name, a link   *)
(* and a URL are sequences of characters; <<>> stands for undefined, for   *)
(* null and for the empty string, which the code treats alike (trim() ||   *)
(* undefined, truthiness tests).                                           *)
(***************************************************************************)

\* The texts tried for an asset of a cv value: none, the file "r", the same with
\* a space before it, the file "d", and a blank text.
AssetTexts == {<<>>, <<"r">>, <<" ", "r">>, <<"d">>, <<" ">>}

LinkTexts == {<<>>, <<"l">>, <<" ">>}

\* showGroups and showTypes of a cv value: NoList is a value that is not an array
\* (absent, a string).
NoList == <<"(no list)">>
ShowGroupLists == {NoList, <<>>, <<" ", "group-a", "group-a">>}
ShowTypeLists == {NoList, <<"group-b">>}

\* CvRouteValue | undefined: absent, a file name, or an object.
NoCv == [kind |-> "undefined", asset |-> <<>>, link |-> <<>>,
         showGroups |-> NoList, showTypes |-> NoList]

CvValues ==
    {NoCv}
     \cup [kind : {"string"}, asset : AssetTexts, link : {<<>>},
           showGroups : {NoList}, showTypes : {NoList}]
     \cup [kind : {"object"}, asset : AssetTexts, link : LinkTexts,
           showGroups : ShowGroupLists, showTypes : ShowTypeLists]

\* The files of asset/cv that loadCvAssets finds.
BundledFiles == {<<"r">>, <<"d">>}

\* context(key): the URL the bundler gives the file.
assetUrl(assetKey) == <<"/", "cv", "/">> \o assetKey

\* sourceGroups of normaliseCvRoute
sourceGroups(config) ==
    IF config.showGroups # NoList THEN config.showGroups
    ELSE IF config.showTypes # NoList THEN config.showTypes
    ELSE <<>>

\* normaliseCvRoute(config): a missing groups list and an empty one are both <<>>,
\* normaliseGroupList giving null for either.
normaliseCvRoute(config) ==
    IF config.kind = "undefined" \/ (config.kind = "string" /\ config.asset = <<>>)
    THEN [asset |-> <<>>, link |-> <<>>, groups |-> <<>>]
    ELSE IF config.kind = "string"
    THEN [asset |-> Trim(config.asset), link |-> <<>>, groups |-> <<>>]
    ELSE [asset |-> Trim(config.asset), link |-> Trim(config.link),
          groups |-> normaliseGroups(sourceGroups(config))]

\* normaliseGroupList(groups)
normaliseGroupList(groups) == normaliseGroups(groups)

\* a ?? b for texts and lists
orElse(a, b) == IF a # <<>> THEN a ELSE b

\* typeof DEFAULT_ROUTE_ENTRY.cv === 'string' ? DEFAULT_ROUTE_ENTRY.cv : undefined
rawDefaultAsset(config) == IF config.kind = "string" THEN config.asset ELSE <<>>

\* resolvedAssetKey of cvSettings
resolvedAssetKey(currentConfig, defaultConfig, rawDefault) ==
    orElse(currentConfig.asset, orElse(defaultConfig.asset, rawDefault))

\* downloadUrl of cvSettings
downloadUrl(assetKey, assets) ==
    IF assetKey # <<>> /\ assetKey \in assets THEN assetUrl(assetKey) ELSE <<>>

\* The cvSettings memo.
useCvSettings(currentConfig, defaultConfig, rawDefault, assets) ==
    [downloadUrl |->
         downloadUrl(resolvedAssetKey(currentConfig, defaultConfig, rawDefault), assets),
     link |-> orElse(currentConfig.link, defaultConfig.link),
     groups |-> orElse(normaliseGroupList(currentConfig.groups),
                       normaliseGroupList(defaultConfig.groups))]

NoSettings == [downloadUrl |-> <<>>, link |-> <<>>, groups |-> <<>>]

\* The render of Main: usePortfolioData composes the CV settings of the route.
LoadCvSettings ==
    /\ ~cvLoaded
    /\ cvLoaded' = TRUE
    /\ cvSettings' = useCvSettings(normaliseCvRoute(currentCv),
                                   normaliseCvRoute(defaultCv),
                                   rawDefaultAsset(defaultCv), CV_ASSETS)
    /\ UNCHANGED <<currentCv, defaultCv, CV_ASSETS, cvAssetLoaded, cvAsset>>
    /\ UNCHANGED <<routeVars, dataVars, dateVars, expVars, spyVars, bannerVars, buildVars, navVars, pageVars, floatVars, rowsVars>>

\* utils/portfolioAssets.ts: the one file imported there, and its URL.
DEFAULT_CV_KEY == <<"c", "v">>
defaultCvPdf == assetUrl(DEFAULT_CV_KEY)

\* currentEntry.cv as a key of the assets object of portfolioAssets.ts: the text
\* itself, or for an object the text it converts to.
cvKey(config) == IF config.kind = "string" THEN config.asset ELSE <<"[object Object]">>

\* CV_ASSETS[currentKey] ?? CV_ASSETS[defaultKey] ?? defaultCvPdf, where CV_ASSETS
\* holds DEFAULT_CV_KEY alone.
legacyCvAsset(current, ofDefault) ==
    LET defaultKey == IF ofDefault.kind # "undefined" THEN cvKey(ofDefault)
                      ELSE DEFAULT_CV_KEY
        currentKey == IF current.kind # "undefined" THEN cvKey(current) ELSE defaultKey
    IN  IF currentKey = DEFAULT_CV_KEY THEN defaultCvPdf
        ELSE IF defaultKey = DEFAULT_CV_KEY THEN defaultCvPdf
        ELSE defaultCvPdf

\* The cvAsset memo of utils/portfolioAssets.ts.
LoadCvAsset ==
    /\ ~cvAssetLoaded
    /\ cvAssetLoaded' = TRUE
    /\ cvAsset' = legacyCvAsset(currentCv, defaultCv)
    /\ UNCHANGED <<currentCv, defaultCv, CV_ASSETS, cvLoaded, cvSettings>>
    /\ UNCHANGED <<routeVars, dataVars, dateVars, expVars, spyVars, bannerVars, buildVars, navVars, pageVars, floatVars, rowsVars>>
(***************************************************************************)
(* The floating banner of Main: the effect that places the banner of the   *)
(* active work, its update() and its scroll and resize handler.  Lengths   *)
(* are whole pixels.                                                       *)
(***************************************************************************)

\* const safeMargin = 16, and the least width update() leaves a banner it narrows.
safeMargin == 16
MinBannerWidth == 280

\* bannerEl.getBoundingClientRect(): left and width of the banner in the page.
BannerLefts == {-300, -4, 16, 100, 400}
BannerWidths == {0, 280, 300, 600}
BannerRects == [left : BannerLefts, width : BannerWidths, height : {40}]

\* window.innerWidth
InnerWidths == {0, 20, 32, 40, 320, 640}

\* window.scrollY: above the summary's end, within the details, and past them.
BannerScrolls == {0, 100, 500}

\* The work whose banner floats: whether it is active, expanded and rendered with
\* its summary, details and banner; the offset getScrollOffset() gives; the
\* bottoms of its summary and details in document coordinates.
BannerPages ==
    [present : BOOLEAN, offset : {0, 5}, summaryBottom : {130}, detailsBottom : {500}]

NoBanner == [code |-> Null, left |-> 0, width |-> 0, top |-> 0]

Max2(a, b) == IF a > b THEN a ELSE b
Min2(a, b) == IF a < b THEN a ELSE b

\* shouldFloat of update()
shouldFloat(page, rect, y) ==
    LET floatingTop == y + page.offset + 20
        stopThreshold == Max2(page.detailsBottom - rect.height - 12,
                              page.summaryBottom + 8)
    IN  /\ y + page.offset + 40 > page.summaryBottom
        /\ floatingTop <= stopThreshold
        /\ floatingTop < page.detailsBottom - 12

\* if (left < safeMargin) { ... }
clampLeft(box) ==
    IF box.left < safeMargin
    THEN [left |-> safeMargin,
          width |-> Max2(box.width - (safeMargin - box.left), MinBannerWidth)]
    ELSE box

\* if (overflowRight > 0) { ... }: the banner is moved left as far as the margin
\* allows, then narrowed.
fitRight(box, inner) ==
    LET overflowRight == box.left + box.width + safeMargin - inner
        shift == Min2(overflowRight, box.left - safeMargin)
        moved == IF shift > 0 THEN shift ELSE 0
    IN  IF overflowRight <= 0 THEN box
        ELSE [left |-> box.left - moved,
              width |-> IF overflowRight - moved > 0
                        THEN Max2(box.width - (overflowRight - moved), MinBannerWidth)
                        ELSE box.width]

\* The width left as it is by the last step.
widthKept(width, availableWidth) == width

\* width = Math.min(width, availableWidth)
widthWithin(width, availableWidth) == Min2(width, availableWidth)

\* let availableWidth = ...; if (availableWidth <= 0) { ... }; width = Math.min(...)
fitAvailable(box, inner) ==
    IF inner - box.left - safeMargin <= 0
    THEN [left |-> safeMargin,
          width |-> widthWithin(box.width, Max2(inner - safeMargin * 2, 0))]
    ELSE [left |-> box.left,
          width |-> widthWithin(box.width, inner - box.left - safeMargin)]

\* left and width of nextState
placeBanner(rect, inner) ==
    fitAvailable(fitRight(clampLeft([left |-> rect.left, width |-> rect.width]), inner),
                 inner)

nextState(code, page, box) ==
    [code |-> code, left |-> box.left, width |-> box.width,
     top |-> page.offset + 20]

\* setFloatingBannerState((previous) => ...): the previous state is kept when the
\* next one is within half a pixel of it.
Abs(n) == IF n < 0 THEN -n ELSE n

keepPrevious(previous, next) ==
    IF /\ previous.code # Null
       /\ previous.code = next.code
       /\ 2 * Abs(previous.left - next.left) < 1
       /\ 2 * Abs(previous.width - next.width) < 1
       /\ 2 * Abs(previous.top - next.top) < 1
    THEN previous
    ELSE next

\* update()
update(code, previous, page, rect, inner, y) ==
    IF ~shouldFloat(page, rect, y) THEN NoBanner
    ELSE keepPrevious(previous, nextState(code, page, placeBanner(rect, inner)))

\* The effect runs: without an active, expanded and rendered work the banner is
\* removed; otherwise update() runs and the handlers are added.
MountBanner ==
    /\ ~bannerMounted
    /\ bannerMounted' = TRUE
    /\ bannerListening' = bannerPage.present
    /\ floatingBannerState' =
           IF bannerPage.present
           THEN update(activeCode, floatingBannerState, bannerPage, bannerRect, innerWidth, bannerScrollY)
           ELSE NoBanner
    /\ UNCHANGED <<bannerPage, bannerRect, innerWidth, bannerScrollY, bannerFrame>>
    /\ UNCHANGED <<routeVars, dataVars, dateVars, expVars, spyVars, cvVars, buildVars, navVars, pageVars, floatVars, rowsVars>>

\* handle: a scroll to y or a resize to inner cancels the frame requested and
\* requests one.
BannerHandle(inner, y) ==
    /\ bannerListening
    /\ innerWidth' = inner
    /\ bannerScrollY' = y
    /\ bannerFrame' = TRUE
    /\ UNCHANGED <<bannerPage, bannerRect, bannerMounted, bannerListening,
                   floatingBannerState>>
    /\ UNCHANGED <<routeVars, dataVars, dateVars, expVars, spyVars, cvVars, buildVars, navVars, pageVars, floatVars, rowsVars>>

\* The frame requested by handle runs update().
BannerFrame ==
    /\ bannerFrame
    /\ bannerFrame' = FALSE
    /\ floatingBannerState' =
           update(activeCode, floatingBannerState, bannerPage, bannerRect, innerWidth, bannerScrollY)
    /\ UNCHANGED <<bannerPage, bannerRect, innerWidth, bannerScrollY, bannerMounted,
                   bannerListening>>
    /\ UNCHANGED <<routeVars, dataVars, dateVars, expVars, spyVars, cvVars, buildVars, navVars, pageVars, floatVars, rowsVars>>
(***************************************************************************)
(* The build wrapper: it spawns `yarn build` with PUBLIC_URL set and exits *)
(* when the child closes.                                                  *)
(***************************************************************************)

\* The exit codes tried for the child: 0..MaxExitCode.
MaxExitCode == 255

Platforms == {"win32", "linux", "darwin"}
Signals == {"SIGINT", "SIGTERM", "SIGKILL"}

\* The arguments of the 'close' event: the exit code if the child exited by
\* itself, or null and the signal that ended it.
CloseEvents ==
    [exited : {TRUE}, code : 0..MaxExitCode, signal : {"null"}]
     \cup [exited : {FALSE}, code : {0}, signal : Signals]

NoClose == [exited |-> FALSE, code |-> 0, signal |-> "null"]

\* process.platform === 'win32' ? 'yarn.cmd' : 'yarn'
command(platformName) == IF platformName = "win32" THEN "yarn.cmd" ELSE "yarn"

\* { ...process.env, PUBLIC_URL: '/peien_portfolio' }
childEnvOf(env) == [env EXCEPT !.PUBLIC_URL = "/peien_portfolio"]

\* code ?? 0
codeOrZero(event) == IF event.exited THEN event.code ELSE 0

\* const child = spawn(command, args, ...)
SpawnBuild ==
    /\ buildPhase = "start"
    /\ buildPhase' = "building"
    /\ childCommand' = <<command(platform), "build">>
    /\ childEnv' = childEnvOf(processEnv)
    /\ UNCHANGED <<platform, processEnv, closeEvent, exitStatus>>
    /\ UNCHANGED <<routeVars, dataVars, dateVars, expVars, spyVars, cvVars, bannerVars, navVars, pageVars, floatVars, rowsVars>>

\* child.on('close', (code) => process.exit(code ?? 0))
ChildClose(event) ==
    /\ buildPhase = "building"
    /\ buildPhase' = "exited"
    /\ closeEvent' = event
    /\ exitStatus' = codeOrZero(event)
    /\ UNCHANGED <<platform, processEnv, childCommand, childEnv>>
    /\ UNCHANGED <<routeVars, dataVars, dateVars, expVars, spyVars, cvVars, bannerVars, navVars, pageVars, floatVars, rowsVars>>
(***************************************************************************)
(* Main: the content selected, the handlers that set the active work, and  *)
(* the effects that run after a render when their dependencies changed:    *)
(* the effect that resets the active work, then usePortfolioScrollSpy.     *)
(* Main renders a section element for every portfolio item, so the codes   *)
(* of portfolioItems are those of the sections.                            *)
(***************************************************************************)

ContentKeys == {"home", "cv", "portfolio"}

\* The works a link of the CV leads to (relatedWorks): the first two
\* portfolio items of a page that has them, and a work of allWorkData.json that
\* is no portfolio item of the route.
RelatedWorks == {ItemCodes[1], ItemCodes[2], "w9"}

\* The sections of Main in document order (homeSectionRef, cvSectionRef,
\* portfolioSectionRef) with the tops of the page tried, in document coordinates.
PageSections ==
    <<[key |-> "home", top |-> 0], [key |-> "cv", top |-> 20],
      [key |-> "portfolio", top |-> 40]>>

\* The numbers of portfolio items of the pages tried, and the heights of their
\* sections, which follow one another from the top of the portfolio section.
NavItemCounts == {0, 2}
NavLayouts ==
    UNION {{layoutFrom([i \in 1..n |-> 0], heights, 1, PageSections[3].top) :
              heights \in [1..n -> SectionHeights]} : n \in NavItemCounts}

\* referenceY >= top, with referenceY = scrollY + offset + innerHeight * 0.25, in
\* quarters.
reachedBy(top, y, offset, viewportHeight) == 4 * (y + offset) + viewportHeight >= 4 * top

\* sections.forEach of the section tracker: the last section reached, from 'home'.
RECURSIVE currentKeyFrom(_, _, _, _, _)
currentKeyFrom(key, index, y, offset, viewportHeight) ==
    IF index > Len(PageSections) THEN key
    ELSE currentKeyFrom(IF reachedBy(PageSections[index].top, y, offset, viewportHeight)
                        THEN PageSections[index].key ELSE key,
                        index + 1, y, offset, viewportHeight)

currentKey(y, view) == currentKeyFrom("home", 1, y, getScrollOffset(view), view.height)

sectionCodes(secs) == {secs[i].code : i \in 1..Len(secs)}

\* The effect of Main on [portfolioItems, selectedContent].
resetActive(selected, current, secs) ==
    IF selected # "portfolio" THEN Null
    ELSE IF Len(secs) = 0 THEN Null
    ELSE IF current # Null /\ current \in sectionCodes(secs) THEN current
    ELSE Null

\* The effects of one commit, in the order of their hooks: the reset of the
\* active work if its dependencies changed, then the effect of
\* usePortfolioScrollSpy if its dependencies changed: its cleanup removes the
\* listeners and leaves a requested frame pending, and the effect returns at once
\* when disabled or when it finds no section, and otherwise evaluates and listens
\* with a ticking of its own.  At the first commit the section tracker evaluates
\* once and listens.
CommitEffects ==
    /\ resetDue \/ spyDue
    /\ IF spyDue /\ enabled /\ Len(sections) > 0
       THEN updateActive(scrollY, viewport)
       ELSE /\ activePortfolio' =
                   IF resetDue
                   THEN resetActive(selectedContent, activePortfolio, sections)
                   ELSE activePortfolio
            /\ UNCHANGED <<expandedCategories, justEvaluated>>
    /\ listening' = IF spyDue THEN enabled /\ Len(sections) > 0 ELSE listening
    /\ ticking' = IF spyDue THEN FALSE ELSE ticking
    /\ effectRan' = TRUE
    /\ IF ~effectRan /\ currentKey(scrollY, viewport) # lastSection
       THEN /\ lastSection' = currentKey(scrollY, viewport)
            /\ selectedContent' = currentKey(scrollY, viewport)
            /\ enabled' = (currentKey(scrollY, viewport) = "portfolio")
            /\ resetDue' = (currentKey(scrollY, viewport) # selectedContent)
            /\ spyDue' = ((currentKey(scrollY, viewport) = "portfolio") # enabled)
            /\ spySetUp' = FALSE
       ELSE /\ spySetUp' = spyDue
            /\ resetDue' = FALSE
            /\ spyDue' = FALSE
            /\ UNCHANGED <<selectedContent, lastSection, enabled>>
    /\ UNCHANGED <<isMobileNavOpen, sections, viewport, scrollY, rafQueue,
                   frameScrolls, frameResizes>>
    /\ UNCHANGED <<routeVars, dataVars, dateVars, expVars, cvVars, bannerVars, buildVars, pageVars, floatVars, rowsVars>>

\* closeNavOnMobile
navAfterClose(open, view) == IF view.mobile THEN FALSE ELSE open

\* setSelectedContent(key) and closeNavOnMobile(): the effects whose dependencies
\* change are due at the next commit.
selectContent(key, closeNav) ==
    /\ selectedContent' = key
    /\ enabled' = (key = "portfolio")
    /\ isMobileNavOpen' =
           IF closeNav THEN navAfterClose(isMobileNavOpen, viewport) ELSE isMobileNavOpen
    /\ resetDue' = (key # selectedContent)
    /\ spyDue' = \/ (key = "portfolio") # enabled
                 \/ closeNav /\ navAfterClose(isMobileNavOpen, viewport) # isMobileNavOpen
    /\ spySetUp' = FALSE

\* matchedCategory?.name ?? null
matchedCategory(code, secs) ==
    IF code \in sectionCodes(secs) THEN sectionCategory(code) ELSE Null

\* handlePortfolioNavClick(code): a click on a work in the navigation or on a
\* related work in the CV; without a code, a click on the portfolio entry.  The
\* scroll it requests arrives later as scroll events.
handlePortfolioNavClick(code) ==
    /\ selectContent("portfolio", TRUE)
    /\ activePortfolio' = code
    /\ expandedCategories' =
           IF code # Null
           THEN updateExpandedCategories(expandedCategories,
                                         matchedCategory(code, sections), ~viewport.mobile)
           ELSE expandedCategories

HandlePortfolioNavClick(code) ==
    /\ ~resetDue /\ ~spyDue
    /\ handlePortfolioNavClick(code)
    /\ UNCHANGED <<lastSection, sections, viewport, scrollY, effectRan, listening,
                   ticking, rafQueue, justEvaluated, frameScrolls, frameResizes>>
    /\ UNCHANGED <<routeVars, dataVars, dateVars, expVars, cvVars, bannerVars, buildVars, pageVars, floatVars, rowsVars>>

\* handleSelectContent(key)
HandleSelectContent(key) ==
    /\ ~resetDue /\ ~spyDue
    /\ IF key = "portfolio"
       THEN handlePortfolioNavClick(Null)
       ELSE /\ selectContent(key, TRUE)
            /\ activePortfolio' = Null
            /\ UNCHANGED expandedCategories
    /\ UNCHANGED <<lastSection, sections, viewport, scrollY, effectRan, listening,
                   ticking, rafQueue, justEvaluated, frameScrolls, frameResizes>>
    /\ UNCHANGED <<routeVars, dataVars, dateVars, expVars, cvVars, bannerVars, buildVars, pageVars, floatVars, rowsVars>>

\* A scroll event of the window at position y: handleScroll of the scroll-spy, if
\* it listens, requests a frame unless its ticking is set, and handleScroll of
\* the section tracker selects the section reached if it is not the one in
\* lastSectionRef.
PageScroll(y) ==
    /\ ~resetDue /\ ~spyDue
    /\ y # scrollY
    /\ (listening /\ ~ticking) => rafQueue < MaxFrameEvents
    /\ scrollY' = y
    /\ ticking' = (listening \/ ticking)
    /\ rafQueue' = IF listening /\ ~ticking THEN rafQueue + 1 ELSE rafQueue
    /\ justEvaluated' = FALSE
    /\ IF currentKey(y, viewport) # lastSection
       THEN /\ lastSection' = currentKey(y, viewport)
            /\ selectContent(currentKey(y, viewport), FALSE)
       ELSE UNCHANGED <<lastSection, selectedContent, enabled, isMobileNavOpen,
                        resetDue, spyDue, spySetUp>>
    /\ UNCHANGED <<sections, viewport, effectRan, listening, activePortfolio,
                   expandedCategories, frameScrolls, frameResizes>>
    /\ UNCHANGED <<routeVars, dataVars, dateVars, expVars, cvVars, bannerVars, buildVars, pageVars, floatVars, rowsVars>>

\* The next animation frame: the callbacks requested run updateActive, those of
\* a scroll-spy torn down since included, since its cleanup cancels none.
NavFrame ==
    /\ rafQueue > 0
    /\ updateActive(scrollY, viewport)
    /\ rafQueue' = 0
    /\ ticking' = FALSE
    /\ UNCHANGED <<enabled, sections, viewport, scrollY, effectRan, listening,
                   frameScrolls, frameResizes>>
    /\ UNCHANGED navVars
    /\ UNCHANGED <<routeVars, dataVars, dateVars, expVars, cvVars, bannerVars, buildVars, pageVars, floatVars, rowsVars>>

\* The updater of toggleCategoryCollapse.
toggled(prev, categoryName) ==
    IF \E i \in 1..Len(prev) : prev[i] = categoryName
    THEN SelectSeq(prev, LAMBDA name : name # categoryName)
    ELSE Append(prev, categoryName)

\* toggleCategoryCollapse(categoryName): a click on a category of the navigation.
ToggleCategory(categoryName) ==
    /\ expandedCategories' = toggled(expandedCategories, categoryName)
    /\ UNCHANGED <<enabled, sections, viewport, scrollY, effectRan, listening, ticking,
                   rafQueue, activePortfolio, justEvaluated, frameScrolls, frameResizes>>
    /\ UNCHANGED navVars
    /\ UNCHANGED <<routeVars, dataVars, dateVars, expVars, cvVars, bannerVars, buildVars, pageVars, floatVars, rowsVars>>

\* setIsMobileNavOpen((previous) => !previous): the button of the mobile bar.
ToggleMobileNav ==
    /\ ~resetDue /\ ~spyDue
    /\ isMobileNavOpen' = ~isMobileNavOpen
    /\ spyDue' = TRUE
    /\ spySetUp' = FALSE
    /\ UNCHANGED <<selectedContent, lastSection, resetDue>>
    /\ UNCHANGED spyVars
    /\ UNCHANGED <<routeVars, dataVars, dateVars, expVars, cvVars, bannerVars, buildVars, pageVars, floatVars, rowsVars>>

\* An event of Main or a commit of its effects.
NavEvent ==
    \/ CommitEffects
    \/ \E code \in RelatedWorks : HandlePortfolioNavClick(code)
    \/ \E key \in ContentKeys : HandleSelectContent(key)
    \/ \E y \in ScrollPositions : PageScroll(y)
    \/ NavFrame
    \/ \E i \in 1..Len(categoriesWithMatrix) : ToggleCategory(categoriesWithMatrix[i].name)
    \/ ToggleMobileNav
(***************************************************************************)
(* The page after its load: Main renders again after every state change,   *)
(* and the location of the window may change without a load of the page.   *)
(***************************************************************************)

\* The locations tried: no hash, the route "r" in two spellings, and a route
\* that is not configured; the root path and the path of the route "r".
PageHashes == {<<>>, <<"#", "r">>, <<"#", "/", "R">>, <<"#", "x">>}
PagePaths == {<<"/">>, <<"/", "r">>}

\* portfolioMap.json and portfolioRoutes.json of the pages tried: with a route "r"
\* of its own categories, and with the default route alone.
PageMap == (<<"a">> :> "name-a") @@ (<<"b">> :> "name-b")

categoryOf(name, codes) == [name |-> name, codes |-> codes, isArray |-> TRUE]

PageConfigs ==
    {("default" :> [hasCategories |-> TRUE,
                    categories |-> <<categoryOf("X", <<<<"a">>>>)>>])
      @@ ("r" :> [hasCategories |-> TRUE,
                  categories |-> <<categoryOf("Y", <<<<"b">>>>)>>]),
     ("default" :> [hasCategories |-> TRUE,
                    categories |-> <<categoryOf("X", <<<<"a">>, <<"b">>>>)>>])}

\* The route key as a key of ROUTE_CONFIG: every key but "default" and "r" is in
\* no configuration tried.
routeName(key) ==
    IF key = Str_default THEN "default" ELSE IF key = <<"r">> THEN "r" ELSE "x"

\* A memo that computes again on every render.
useMemoAlways(cached, computed) == computed

\* useMemo(compute, []) on a later render: the value of the first render.
useMemoOnce(cached, computed) == cached

\* usePortfolioData(routeKey) in the first render of Main.
LoadPortfolioOfRoute ==
    /\ routeMounted
    /\ LoadPortfolio(routeName(routeKey))

\* The hash or the path of the location changes with no load of the page: the
\* application listens to neither hashchange nor popstate.
ChangeLocation(hash, path) ==
    /\ dataLoaded
    /\ <<hash, path>> # <<locHash, locPath>>
    /\ locHash' = hash
    /\ locPath' = path
    /\ reRendered' = FALSE
    /\ UNCHANGED <<hasWindow, publicUrl, routeMounted, routeKey>>
    /\ UNCHANGED <<dataVars, dateVars, expVars, spyVars, cvVars, bannerVars, buildVars, navVars, floatVars, rowsVars>>

\* The memos of usePortfolioData on a later render: computed again only when the
\* route key they depend on has changed.
renderData(key) ==
    IF key = routeKey
    THEN UNCHANGED <<dataLoaded, dataRouteKey, resolvedFrom, categories, portfolioItems,
                     renderError>>
    ELSE IF categoriesThrow(routeName(key))
    THEN FailRender(routeName(key))
    ELSE SetPortfolio(routeName(key), usePortfolioCategories(routeName(key)))

\* A later render of Main: useRouteKey() and usePortfolioData(routeKey) run again.
RenderMain ==
    /\ dataLoaded
    /\ routeKey' = useMemoOnce(routeKey,
                               useRouteKey(hasWindow, locHash, locPath, publicUrl))
    /\ renderData(useMemoOnce(routeKey,
                              useRouteKey(hasWindow, locHash, locPath, publicUrl)))
    /\ reRendered' = TRUE
    /\ UNCHANGED <<hasWindow, publicUrl, locHash, locPath, routeMounted>>
    /\ UNCHANGED <<portfolioMap, upperFirst, ROUTE_CONFIG>>
    /\ UNCHANGED <<dateVars, expVars, spyVars, cvVars, bannerVars, buildVars, navVars, floatVars, rowsVars>>
(***************************************************************************)
(* The effect of the floating banner as the active work and the expanded   *)
(* works change: it runs at the commit after a change of activePortfolio   *)
(* or expandedWorks, its cleanup first.                                     *)
(***************************************************************************)

\* The codes an active work takes: none, a portfolio item, a work that is no
\* portfolio item.
FloatCodes == {Null, ItemCodes[1], ItemCodes[2], "w9"}

\* The pages tried: no portfolio item, or two.
FloatLayouts ==
    {layout \in NavLayouts : \A i \in 1..Len(layout) : layout[i].bottom - layout[i].top = 10}

\* The banner of the work as the page lays it out.
FloatRects == {rect \in BannerRects : rect.left = 100 /\ rect.width = 300}

\* A cleanup that cancels no frame.
frameLeftPending(requested) == requested

\* if (rafId !== null) cancelAnimationFrame(rafId), in the cleanup of the effect.
frameAfterCleanup(requested) == FALSE

\* expandedWorks.includes(code)
includes(works, code) == \E i \in 1..Len(works) : works[i] = code

\* The tests of the effect before it defines update(): an active code, expanded,
\* the code of a portfolio item, and its summary, details and banner elements.
bannerShowable(code, works, secs, page) ==
    /\ code # Null
    /\ includes(works, code)
    /\ code \in sectionCodes(secs)
    /\ page.present

\* The effect of Main on [activePortfolio, expandedWorks, getScrollOffset,
\* portfolioItems]: the cleanup of its last run, then either
\* setFloatingBannerState(null) or update() and the two listeners.
BannerEffect ==
    /\ bannerDue
    /\ bannerDue' = FALSE
    /\ bannerMounted' = TRUE
    /\ bannerFrame' = frameAfterCleanup(bannerFrame)
    /\ bannerListening' = bannerShowable(activePortfolio, expandedWorks, sections, bannerPage)
    /\ IF bannerShowable(activePortfolio, expandedWorks, sections, bannerPage)
       THEN /\ activeCode' = activePortfolio
            /\ floatingBannerState' =
                   update(activePortfolio, floatingBannerState, bannerPage, bannerRect,
                          innerWidth, bannerScrollY)
       ELSE /\ floatingBannerState' = NoBanner
            /\ UNCHANGED activeCode
    /\ UNCHANGED <<bannerPage, bannerRect, innerWidth, bannerScrollY, expandedWorks>>
    /\ UNCHANGED <<routeVars, dataVars, dateVars, expVars, spyVars, cvVars, buildVars, navVars, pageVars, rowsVars>>

\* setActivePortfolio(code), from the scroll-spy or a navigation.
SetActivePortfolio(code) ==
    /\ ~bannerDue
    /\ code # activePortfolio
    /\ activePortfolio' = code
    /\ bannerDue' = TRUE
    /\ UNCHANGED <<enabled, sections, viewport, scrollY, effectRan, listening, ticking,
                   rafQueue, expandedCategories, justEvaluated, frameScrolls,
                   frameResizes>>
    /\ UNCHANGED <<expandedWorks, activeCode>>
    /\ UNCHANGED <<routeVars, dataVars, dateVars, expVars, cvVars, bannerVars, buildVars, navVars, pageVars, rowsVars>>

\* The updater of toggleWork.
toggleWork(prev, code) ==
    IF includes(prev, code)
    THEN SelectSeq(prev, LAMBDA item : item # code)
    ELSE Append(prev, code)

\* toggleWork(code): a work of the page is expanded or collapsed.
ToggleWork(code) ==
    /\ ~bannerDue
    /\ expandedWorks' = toggleWork(expandedWorks, code)
    /\ bannerDue' = TRUE
    /\ UNCHANGED activeCode
    /\ UNCHANGED <<routeVars, dataVars, dateVars, expVars, spyVars, cvVars, bannerVars, buildVars, navVars, pageVars, rowsVars>>
(***************************************************************************)
(* PortfolioOverview and useHorizontalScrollIndicators, for one category   *)
(* row and with no event of the user: the commits of PortfolioOverview,     *)
(* which pass a new ref callback registerRow(name) at every render, and    *)
(* the frames the ref callbacks request.                                    *)
(***************************************************************************)

\* The row of the category: whether the category has items and so a row, and
\* the scrollLeft, scrollWidth and clientWidth of its element.
OverviewRows ==
    [present : BOOLEAN, scrollLeft : {0, 8, 9, 50}, scrollWidth : {100, 116, 300},
     clientWidth : {100, 200}]

\* scrollState without an entry for the row, and with one.
NoEntry == [set |-> FALSE, left |-> FALSE, right |-> FALSE]

\* const { [name]: _removed, ...rest } = prev
withoutEntry(prev) == NoEntry

\* left and right of updateState
measured(node) ==
    [set |-> TRUE,
     left |-> node.scrollLeft > 8,
     right |-> node.scrollLeft + node.clientWidth < node.scrollWidth - 8]

\* updateState(name): the entry is removed when no node is registered, kept when
\* it equals what is measured, and written otherwise.
updateState(node, registered, prev) ==
    IF ~registered THEN withoutEntry(prev)
    ELSE IF prev = measured(node) THEN prev
    ELSE measured(node)

\* The commit of a render of PortfolioOverview.  After the first, React calls
\* the ref callback of the render before with null, which removes the node and
\* the entry of the row, and then the new one with the node, which registers
\* it and requests a frame for its handler.  At the first, the new callback is
\* called and the effect on [categories, refreshAll] runs refreshAll.
CommitOverview ==
    /\ overviewDue
    /\ overviewMounted' = TRUE
    /\ rowRegistered' = overviewRow.present
    /\ rowFrame' = (rowFrame \/ overviewRow.present)
    /\ scrollState' =
           IF ~overviewRow.present THEN scrollState
           ELSE IF overviewMounted THEN withoutEntry(scrollState)
           ELSE updateState(overviewRow, TRUE, scrollState)
    /\ overviewDue' =
           /\ overviewRow.present
           /\ scrollState # (IF overviewMounted THEN withoutEntry(scrollState)
                             ELSE updateState(overviewRow, TRUE, scrollState))
    /\ UNCHANGED overviewRow
    /\ UNCHANGED <<routeVars, dataVars, dateVars, expVars, spyVars, cvVars, bannerVars, buildVars, navVars, pageVars, floatVars>>

\* The next animation frame: the handlers requested run updateState(name); a
\* state that changed makes a render due.
RowFrame ==
    /\ rowFrame
    /\ rowFrame' = FALSE
    /\ scrollState' = updateState(overviewRow, rowRegistered, scrollState)
    /\ overviewDue' =
           (overviewDue \/ scrollState # updateState(overviewRow, rowRegistered, scrollState))
    /\ UNCHANGED <<overviewRow, rowRegistered, overviewMounted>>
    /\ UNCHANGED <<routeVars, dataVars, dateVars, expVars, spyVars, cvVars, bannerVars, buildVars, navVars, pageVars, floatVars>>

(***************************************************************************)
(* Specifications                                                           *)
(***************************************************************************)

\* The page before its first render, for each browser location.
RouteInit ==
    /\ hasWindow \in BOOLEAN
    /\ publicUrl \in PublicUrls
    /\ locHash \in Hashes
    /\ locPath \in {publicUrl \o r : r \in PathRests}
                     \cup (IF publicUrl = <<>> THEN {} ELSE {publicUrl})
    /\ routeMounted = FALSE
    /\ routeKey = <<>>
    /\ ROUTE_CONFIG = <<>>
    /\ portfolioMap = <<>>
    /\ upperFirst = FALSE
    /\ dataLoaded = FALSE
    /\ dataRouteKey = "default"
    /\ resolvedFrom = "none"
    /\ categories = <<>>
    /\ portfolioItems = <<>>
    /\ renderError = FALSE
    /\ dateInput = [form |-> "other", year |-> 0, month |-> 0, sep |-> "", padded |-> FALSE,
                   entry |-> 0, letterCase |-> "lower", text |-> <<>>]
    /\ dateText = <<>>
    /\ dateParsed = FALSE
    /\ dateKey = 0
    /\ dataset = <<>>
    /\ preferredGroups = <<>>
    /\ expLoaded = FALSE
    /\ experienceGroups = <<>>
    /\ enabled = FALSE
    /\ sections = <<>>
    /\ viewport = [height |-> 20, mobile |-> FALSE, navHeight |-> 0]
    /\ scrollY = 0
    /\ effectRan = FALSE
    /\ listening = FALSE
    /\ ticking = FALSE
    /\ rafQueue = 0
    /\ activePortfolio = Null
    /\ expandedCategories = <<>>
    /\ justEvaluated = FALSE
    /\ frameScrolls = 0
    /\ frameResizes = 0
    /\ currentCv = NoCv
    /\ defaultCv = NoCv
    /\ CV_ASSETS = {}
    /\ cvLoaded = FALSE
    /\ cvSettings = NoSettings
    /\ cvAssetLoaded = FALSE
    /\ cvAsset = <<>>
    /\ bannerPage = [present |-> FALSE, offset |-> 0, summaryBottom |-> 130, detailsBottom |-> 500]
    /\ bannerRect = [left |-> 16, width |-> 0, height |-> 40]
    /\ innerWidth = 0
    /\ bannerScrollY = 0
    /\ bannerMounted = FALSE
    /\ bannerListening = FALSE
    /\ bannerFrame = FALSE
    /\ floatingBannerState = NoBanner
    /\ platform = "linux"
    /\ processEnv = [PUBLIC_URL |-> ""]
    /\ buildPhase = "start"
    /\ childCommand = <<>>
    /\ childEnv = [PUBLIC_URL |-> ""]
    /\ closeEvent = NoClose
    /\ exitStatus = 0
    /\ selectedContent = "home"
    /\ isMobileNavOpen = FALSE
    /\ lastSection = "home"
    /\ resetDue = FALSE
    /\ spyDue = FALSE
    /\ spySetUp = FALSE
    /\ reRendered = FALSE
    /\ expandedWorks = <<>>
    /\ bannerDue = FALSE
    /\ activeCode = ItemCodes[1]
    /\ overviewRow = [present |-> FALSE, scrollLeft |-> 0, scrollWidth |-> 100, clientWidth |-> 100]
    /\ rowRegistered = FALSE
    /\ scrollState = NoEntry
    /\ overviewDue = FALSE
    /\ rowFrame = FALSE
    /\ overviewMounted = FALSE

RouteNext == MountRouteKey

SpecRoute == RouteInit /\ [][RouteNext]_vars

\* The page before its first render, for each content of the JSON data files.
DataInit ==
    /\ ROUTE_CONFIG \in RouteConfigs
    /\ portfolioMap \in PortfolioMaps
    /\ upperFirst \in BOOLEAN
    /\ dataLoaded = FALSE
    /\ dataRouteKey = "default"
    /\ resolvedFrom = "none"
    /\ categories = <<>>
    /\ portfolioItems = <<>>
    /\ renderError = FALSE
    /\ hasWindow = TRUE
    /\ publicUrl = <<>>
    /\ locHash = <<>>
    /\ locPath = <<"/">>
    /\ routeMounted = FALSE
    /\ routeKey = <<>>
    /\ dateInput = [form |-> "other", year |-> 0, month |-> 0, sep |-> "", padded |-> FALSE,
                   entry |-> 0, letterCase |-> "lower", text |-> <<>>]
    /\ dateText = <<>>
    /\ dateParsed = FALSE
    /\ dateKey = 0
    /\ dataset = <<>>
    /\ preferredGroups = <<>>
    /\ expLoaded = FALSE
    /\ experienceGroups = <<>>
    /\ enabled = FALSE
    /\ sections = <<>>
    /\ viewport = [height |-> 20, mobile |-> FALSE, navHeight |-> 0]
    /\ scrollY = 0
    /\ effectRan = FALSE
    /\ listening = FALSE
    /\ ticking = FALSE
    /\ rafQueue = 0
    /\ activePortfolio = Null
    /\ expandedCategories = <<>>
    /\ justEvaluated = FALSE
    /\ frameScrolls = 0
    /\ frameResizes = 0
    /\ currentCv = NoCv
    /\ defaultCv = NoCv
    /\ CV_ASSETS = {}
    /\ cvLoaded = FALSE
    /\ cvSettings = NoSettings
    /\ cvAssetLoaded = FALSE
    /\ cvAsset = <<>>
    /\ bannerPage = [present |-> FALSE, offset |-> 0, summaryBottom |-> 130, detailsBottom |-> 500]
    /\ bannerRect = [left |-> 16, width |-> 0, height |-> 40]
    /\ innerWidth = 0
    /\ bannerScrollY = 0
    /\ bannerMounted = FALSE
    /\ bannerListening = FALSE
    /\ bannerFrame = FALSE
    /\ floatingBannerState = NoBanner
    /\ platform = "linux"
    /\ processEnv = [PUBLIC_URL |-> ""]
    /\ buildPhase = "start"
    /\ childCommand = <<>>
    /\ childEnv = [PUBLIC_URL |-> ""]
    /\ closeEvent = NoClose
    /\ exitStatus = 0
    /\ selectedContent = "home"
    /\ isMobileNavOpen = FALSE
    /\ lastSection = "home"
    /\ resetDue = FALSE
    /\ spyDue = FALSE
    /\ spySetUp = FALSE
    /\ reRendered = FALSE
    /\ expandedWorks = <<>>
    /\ bannerDue = FALSE
    /\ activeCode = ItemCodes[1]
    /\ overviewRow = [present |-> FALSE, scrollLeft |-> 0, scrollWidth |-> 100, clientWidth |-> 100]
    /\ rowRegistered = FALSE
    /\ scrollState = NoEntry
    /\ overviewDue = FALSE
    /\ rowFrame = FALSE
    /\ overviewMounted = FALSE

DataNext == \E key \in RouteKeys : LoadPortfolio(key)

SpecData == DataInit /\ [][DataNext]_vars

\* The page before its first render, for each malformed content of portfolioRoutes.json.
MalformedInit ==
    /\ ROUTE_CONFIG \in MalformedConfigs
    /\ portfolioMap \in PlainMaps
    /\ upperFirst = FALSE
    /\ dataLoaded = FALSE
    /\ dataRouteKey = "default"
    /\ resolvedFrom = "none"
    /\ categories = <<>>
    /\ portfolioItems = <<>>
    /\ renderError = FALSE
    /\ hasWindow = TRUE
    /\ publicUrl = <<>>
    /\ locHash = <<>>
    /\ locPath = <<"/">>
    /\ routeMounted = FALSE
    /\ routeKey = <<>>
    /\ dateInput = [form |-> "other", year |-> 0, month |-> 0, sep |-> "", padded |-> FALSE,
                   entry |-> 0, letterCase |-> "lower", text |-> <<>>]
    /\ dateText = <<>>
    /\ dateParsed = FALSE
    /\ dateKey = 0
    /\ dataset = <<>>
    /\ preferredGroups = <<>>
    /\ expLoaded = FALSE
    /\ experienceGroups = <<>>
    /\ enabled = FALSE
    /\ sections = <<>>
    /\ viewport = [height |-> 20, mobile |-> FALSE, navHeight |-> 0]
    /\ scrollY = 0
    /\ effectRan = FALSE
    /\ listening = FALSE
    /\ ticking = FALSE
    /\ rafQueue = 0
    /\ activePortfolio = Null
    /\ expandedCategories = <<>>
    /\ justEvaluated = FALSE
    /\ frameScrolls = 0
    /\ frameResizes = 0
    /\ currentCv = NoCv
    /\ defaultCv = NoCv
    /\ CV_ASSETS = {}
    /\ cvLoaded = FALSE
    /\ cvSettings = NoSettings
    /\ cvAssetLoaded = FALSE
    /\ cvAsset = <<>>
    /\ bannerPage = [present |-> FALSE, offset |-> 0, summaryBottom |-> 130, detailsBottom |-> 500]
    /\ bannerRect = [left |-> 16, width |-> 0, height |-> 40]
    /\ innerWidth = 0
    /\ bannerScrollY = 0
    /\ bannerMounted = FALSE
    /\ bannerListening = FALSE
    /\ bannerFrame = FALSE
    /\ floatingBannerState = NoBanner
    /\ platform = "linux"
    /\ processEnv = [PUBLIC_URL |-> ""]
    /\ buildPhase = "start"
    /\ childCommand = <<>>
    /\ childEnv = [PUBLIC_URL |-> ""]
    /\ closeEvent = NoClose
    /\ exitStatus = 0
    /\ selectedContent = "home"
    /\ isMobileNavOpen = FALSE
    /\ lastSection = "home"
    /\ resetDue = FALSE
    /\ spyDue = FALSE
    /\ spySetUp = FALSE
    /\ reRendered = FALSE
    /\ expandedWorks = <<>>
    /\ bannerDue = FALSE
    /\ activeCode = ItemCodes[1]
    /\ overviewRow = [present |-> FALSE, scrollLeft |-> 0, scrollWidth |-> 100, clientWidth |-> 100]
    /\ rowRegistered = FALSE
    /\ scrollState = NoEntry
    /\ overviewDue = FALSE
    /\ rowFrame = FALSE
    /\ overviewMounted = FALSE

MalformedNext == \E key \in RouteKeys : LoadPortfolio(key)

SpecMalformed == MalformedInit /\ [][MalformedNext]_vars

\* A date text of the experience data, before it is parsed.
DateInit ==
    /\ dateInput \in DateInputs
    /\ dateText = writeDate(dateInput)
    /\ dateParsed = FALSE
    /\ dateKey = 0
    /\ hasWindow = TRUE
    /\ publicUrl = <<>>
    /\ locHash = <<>>
    /\ locPath = <<"/">>
    /\ routeMounted = FALSE
    /\ routeKey = <<>>
    /\ ROUTE_CONFIG = <<>>
    /\ portfolioMap = <<>>
    /\ upperFirst = FALSE
    /\ dataLoaded = FALSE
    /\ dataRouteKey = "default"
    /\ resolvedFrom = "none"
    /\ categories = <<>>
    /\ portfolioItems = <<>>
    /\ renderError = FALSE
    /\ dataset = <<>>
    /\ preferredGroups = <<>>
    /\ expLoaded = FALSE
    /\ experienceGroups = <<>>
    /\ enabled = FALSE
    /\ sections = <<>>
    /\ viewport = [height |-> 20, mobile |-> FALSE, navHeight |-> 0]
    /\ scrollY = 0
    /\ effectRan = FALSE
    /\ listening = FALSE
    /\ ticking = FALSE
    /\ rafQueue = 0
    /\ activePortfolio = Null
    /\ expandedCategories = <<>>
    /\ justEvaluated = FALSE
    /\ frameScrolls = 0
    /\ frameResizes = 0
    /\ currentCv = NoCv
    /\ defaultCv = NoCv
    /\ CV_ASSETS = {}
    /\ cvLoaded = FALSE
    /\ cvSettings = NoSettings
    /\ cvAssetLoaded = FALSE
    /\ cvAsset = <<>>
    /\ bannerPage = [present |-> FALSE, offset |-> 0, summaryBottom |-> 130, detailsBottom |-> 500]
    /\ bannerRect = [left |-> 16, width |-> 0, height |-> 40]
    /\ innerWidth = 0
    /\ bannerScrollY = 0
    /\ bannerMounted = FALSE
    /\ bannerListening = FALSE
    /\ bannerFrame = FALSE
    /\ floatingBannerState = NoBanner
    /\ platform = "linux"
    /\ processEnv = [PUBLIC_URL |-> ""]
    /\ buildPhase = "start"
    /\ childCommand = <<>>
    /\ childEnv = [PUBLIC_URL |-> ""]
    /\ closeEvent = NoClose
    /\ exitStatus = 0
    /\ selectedContent = "home"
    /\ isMobileNavOpen = FALSE
    /\ lastSection = "home"
    /\ resetDue = FALSE
    /\ spyDue = FALSE
    /\ spySetUp = FALSE
    /\ reRendered = FALSE
    /\ expandedWorks = <<>>
    /\ bannerDue = FALSE
    /\ activeCode = ItemCodes[1]
    /\ overviewRow = [present |-> FALSE, scrollLeft |-> 0, scrollWidth |-> 100, clientWidth |-> 100]
    /\ rowRegistered = FALSE
    /\ scrollState = NoEntry
    /\ overviewDue = FALSE
    /\ rowFrame = FALSE
    /\ overviewMounted = FALSE

DateNext == ParseDate

SpecDate == DateInit /\ [][DateNext]_vars

\* The page before its first render, for each experience dataset and CV setting.
ExpInit ==
    /\ \E n \in 0..MaxEntries : \E f \in [1..n -> ExperienceEntries] :
          dataset = entriesOf(f, n)
    /\ preferredGroups = <<>>
    /\ expLoaded = FALSE
    /\ experienceGroups = <<>>
    /\ hasWindow = TRUE
    /\ publicUrl = <<>>
    /\ locHash = <<>>
    /\ locPath = <<"/">>
    /\ routeMounted = FALSE
    /\ routeKey = <<>>
    /\ ROUTE_CONFIG = <<>>
    /\ portfolioMap = <<>>
    /\ upperFirst = FALSE
    /\ dataLoaded = FALSE
    /\ dataRouteKey = "default"
    /\ resolvedFrom = "none"
    /\ categories = <<>>
    /\ portfolioItems = <<>>
    /\ renderError = FALSE
    /\ dateInput = [form |-> "other", year |-> 0, month |-> 0, sep |-> "", padded |-> FALSE,
                   entry |-> 0, letterCase |-> "lower", text |-> <<>>]
    /\ dateText = <<>>
    /\ dateParsed = FALSE
    /\ dateKey = 0
    /\ enabled = FALSE
    /\ sections = <<>>
    /\ viewport = [height |-> 20, mobile |-> FALSE, navHeight |-> 0]
    /\ scrollY = 0
    /\ effectRan = FALSE
    /\ listening = FALSE
    /\ ticking = FALSE
    /\ rafQueue = 0
    /\ activePortfolio = Null
    /\ expandedCategories = <<>>
    /\ justEvaluated = FALSE
    /\ frameScrolls = 0
    /\ frameResizes = 0
    /\ currentCv = NoCv
    /\ defaultCv = NoCv
    /\ CV_ASSETS = {}
    /\ cvLoaded = FALSE
    /\ cvSettings = NoSettings
    /\ cvAssetLoaded = FALSE
    /\ cvAsset = <<>>
    /\ bannerPage = [present |-> FALSE, offset |-> 0, summaryBottom |-> 130, detailsBottom |-> 500]
    /\ bannerRect = [left |-> 16, width |-> 0, height |-> 40]
    /\ innerWidth = 0
    /\ bannerScrollY = 0
    /\ bannerMounted = FALSE
    /\ bannerListening = FALSE
    /\ bannerFrame = FALSE
    /\ floatingBannerState = NoBanner
    /\ platform = "linux"
    /\ processEnv = [PUBLIC_URL |-> ""]
    /\ buildPhase = "start"
    /\ childCommand = <<>>
    /\ childEnv = [PUBLIC_URL |-> ""]
    /\ closeEvent = NoClose
    /\ exitStatus = 0
    /\ selectedContent = "home"
    /\ isMobileNavOpen = FALSE
    /\ lastSection = "home"
    /\ resetDue = FALSE
    /\ spyDue = FALSE
    /\ spySetUp = FALSE
    /\ reRendered = FALSE
    /\ expandedWorks = <<>>
    /\ bannerDue = FALSE
    /\ activeCode = ItemCodes[1]
    /\ overviewRow = [present |-> FALSE, scrollLeft |-> 0, scrollWidth |-> 100, clientWidth |-> 100]
    /\ rowRegistered = FALSE
    /\ scrollState = NoEntry
    /\ overviewDue = FALSE
    /\ rowFrame = FALSE
    /\ overviewMounted = FALSE

ExpNext == \E groups \in PreferredGroups : LoadExperience(groups)

SpecExp == ExpInit /\ [][ExpNext]_vars

\* The page before its first render, for each dataset of tagged entries.
VisibilityInit ==
    /\ \E n \in 0..MaxEntries : \E f \in [1..n -> TaggedEntries] :
          dataset = entriesOf(f, n)
    /\ preferredGroups = <<>>
    /\ expLoaded = FALSE
    /\ experienceGroups = <<>>
    /\ hasWindow = TRUE
    /\ publicUrl = <<>>
    /\ locHash = <<>>
    /\ locPath = <<"/">>
    /\ routeMounted = FALSE
    /\ routeKey = <<>>
    /\ ROUTE_CONFIG = <<>>
    /\ portfolioMap = <<>>
    /\ upperFirst = FALSE
    /\ dataLoaded = FALSE
    /\ dataRouteKey = "default"
    /\ resolvedFrom = "none"
    /\ categories = <<>>
    /\ portfolioItems = <<>>
    /\ renderError = FALSE
    /\ dateInput = [form |-> "other", year |-> 0, month |-> 0, sep |-> "", padded |-> FALSE,
                   entry |-> 0, letterCase |-> "lower", text |-> <<>>]
    /\ dateText = <<>>
    /\ dateParsed = FALSE
    /\ dateKey = 0
    /\ enabled = FALSE
    /\ sections = <<>>
    /\ viewport = [height |-> 20, mobile |-> FALSE, navHeight |-> 0]
    /\ scrollY = 0
    /\ effectRan = FALSE
    /\ listening = FALSE
    /\ ticking = FALSE
    /\ rafQueue = 0
    /\ activePortfolio = Null
    /\ expandedCategories = <<>>
    /\ justEvaluated = FALSE
    /\ frameScrolls = 0
    /\ frameResizes = 0
    /\ currentCv = NoCv
    /\ defaultCv = NoCv
    /\ CV_ASSETS = {}
    /\ cvLoaded = FALSE
    /\ cvSettings = NoSettings
    /\ cvAssetLoaded = FALSE
    /\ cvAsset = <<>>
    /\ bannerPage = [present |-> FALSE, offset |-> 0, summaryBottom |-> 130, detailsBottom |-> 500]
    /\ bannerRect = [left |-> 16, width |-> 0, height |-> 40]
    /\ innerWidth = 0
    /\ bannerScrollY = 0
    /\ bannerMounted = FALSE
    /\ bannerListening = FALSE
    /\ bannerFrame = FALSE
    /\ floatingBannerState = NoBanner
    /\ platform = "linux"
    /\ processEnv = [PUBLIC_URL |-> ""]
    /\ buildPhase = "start"
    /\ childCommand = <<>>
    /\ childEnv = [PUBLIC_URL |-> ""]
    /\ closeEvent = NoClose
    /\ exitStatus = 0
    /\ selectedContent = "home"
    /\ isMobileNavOpen = FALSE
    /\ lastSection = "home"
    /\ resetDue = FALSE
    /\ spyDue = FALSE
    /\ spySetUp = FALSE
    /\ reRendered = FALSE
    /\ expandedWorks = <<>>
    /\ bannerDue = FALSE
    /\ activeCode = ItemCodes[1]
    /\ overviewRow = [present |-> FALSE, scrollLeft |-> 0, scrollWidth |-> 100, clientWidth |-> 100]
    /\ rowRegistered = FALSE
    /\ scrollState = NoEntry
    /\ overviewDue = FALSE
    /\ rowFrame = FALSE
    /\ overviewMounted = FALSE

VisibilityNext == \E groups \in FilterGroups : LoadExperience(groups)

SpecVisibility == VisibilityInit /\ [][VisibilityNext]_vars

\* The page before its first render, for each cv value of the route and of the default route.
CvInit ==
    /\ currentCv \in CvValues
    /\ defaultCv \in CvValues
    /\ CV_ASSETS \in SUBSET BundledFiles
    /\ cvLoaded = FALSE
    /\ cvSettings = NoSettings
    /\ cvAssetLoaded = FALSE
    /\ cvAsset = <<>>
    /\ hasWindow = TRUE
    /\ publicUrl = <<>>
    /\ locHash = <<>>
    /\ locPath = <<"/">>
    /\ routeMounted = FALSE
    /\ routeKey = <<>>
    /\ ROUTE_CONFIG = <<>>
    /\ portfolioMap = <<>>
    /\ upperFirst = FALSE
    /\ dataLoaded = FALSE
    /\ dataRouteKey = "default"
    /\ resolvedFrom = "none"
    /\ categories = <<>>
    /\ portfolioItems = <<>>
    /\ renderError = FALSE
    /\ dateInput = [form |-> "other", year |-> 0, month |-> 0, sep |-> "", padded |-> FALSE,
                   entry |-> 0, letterCase |-> "lower", text |-> <<>>]
    /\ dateText = <<>>
    /\ dateParsed = FALSE
    /\ dateKey = 0
    /\ dataset = <<>>
    /\ preferredGroups = <<>>
    /\ expLoaded = FALSE
    /\ experienceGroups = <<>>
    /\ enabled = FALSE
    /\ sections = <<>>
    /\ viewport = [height |-> 20, mobile |-> FALSE, navHeight |-> 0]
    /\ scrollY = 0
    /\ effectRan = FALSE
    /\ listening = FALSE
    /\ ticking = FALSE
    /\ rafQueue = 0
    /\ activePortfolio = Null
    /\ expandedCategories = <<>>
    /\ justEvaluated = FALSE
    /\ frameScrolls = 0
    /\ frameResizes = 0
    /\ bannerPage = [present |-> FALSE, offset |-> 0, summaryBottom |-> 130, detailsBottom |-> 500]
    /\ bannerRect = [left |-> 16, width |-> 0, height |-> 40]
    /\ innerWidth = 0
    /\ bannerScrollY = 0
    /\ bannerMounted = FALSE
    /\ bannerListening = FALSE
    /\ bannerFrame = FALSE
    /\ floatingBannerState = NoBanner
    /\ platform = "linux"
    /\ processEnv = [PUBLIC_URL |-> ""]
    /\ buildPhase = "start"
    /\ childCommand = <<>>
    /\ childEnv = [PUBLIC_URL |-> ""]
    /\ closeEvent = NoClose
    /\ exitStatus = 0
    /\ selectedContent = "home"
    /\ isMobileNavOpen = FALSE
    /\ lastSection = "home"
    /\ resetDue = FALSE
    /\ spyDue = FALSE
    /\ spySetUp = FALSE
    /\ reRendered = FALSE
    /\ expandedWorks = <<>>
    /\ bannerDue = FALSE
    /\ activeCode = ItemCodes[1]
    /\ overviewRow = [present |-> FALSE, scrollLeft |-> 0, scrollWidth |-> 100, clientWidth |-> 100]
    /\ rowRegistered = FALSE
    /\ scrollState = NoEntry
    /\ overviewDue = FALSE
    /\ rowFrame = FALSE
    /\ overviewMounted = FALSE

CvNext == LoadCvSettings \/ LoadCvAsset

SpecCv == CvInit /\ [][CvNext]_vars

\* The page before the effect of the floating banner has run.
BannerInit ==
    /\ bannerPage \in BannerPages
    /\ bannerRect \in BannerRects
    /\ innerWidth \in InnerWidths
    /\ bannerScrollY \in BannerScrolls
    /\ bannerMounted = FALSE
    /\ bannerListening = FALSE
    /\ bannerFrame = FALSE
    /\ floatingBannerState = NoBanner
    /\ hasWindow = TRUE
    /\ publicUrl = <<>>
    /\ locHash = <<>>
    /\ locPath = <<"/">>
    /\ routeMounted = FALSE
    /\ routeKey = <<>>
    /\ ROUTE_CONFIG = <<>>
    /\ portfolioMap = <<>>
    /\ upperFirst = FALSE
    /\ dataLoaded = FALSE
    /\ dataRouteKey = "default"
    /\ resolvedFrom = "none"
    /\ categories = <<>>
    /\ portfolioItems = <<>>
    /\ renderError = FALSE
    /\ dateInput = [form |-> "other", year |-> 0, month |-> 0, sep |-> "", padded |-> FALSE,
                   entry |-> 0, letterCase |-> "lower", text |-> <<>>]
    /\ dateText = <<>>
    /\ dateParsed = FALSE
    /\ dateKey = 0
    /\ dataset = <<>>
    /\ preferredGroups = <<>>
    /\ expLoaded = FALSE
    /\ experienceGroups = <<>>
    /\ enabled = FALSE
    /\ sections = <<>>
    /\ viewport = [height |-> 20, mobile |-> FALSE, navHeight |-> 0]
    /\ scrollY = 0
    /\ effectRan = FALSE
    /\ listening = FALSE
    /\ ticking = FALSE
    /\ rafQueue = 0
    /\ activePortfolio = Null
    /\ expandedCategories = <<>>
    /\ justEvaluated = FALSE
    /\ frameScrolls = 0
    /\ frameResizes = 0
    /\ currentCv = NoCv
    /\ defaultCv = NoCv
    /\ CV_ASSETS = {}
    /\ cvLoaded = FALSE
    /\ cvSettings = NoSettings
    /\ cvAssetLoaded = FALSE
    /\ cvAsset = <<>>
    /\ platform = "linux"
    /\ processEnv = [PUBLIC_URL |-> ""]
    /\ buildPhase = "start"
    /\ childCommand = <<>>
    /\ childEnv = [PUBLIC_URL |-> ""]
    /\ closeEvent = NoClose
    /\ exitStatus = 0
    /\ selectedContent = "home"
    /\ isMobileNavOpen = FALSE
    /\ lastSection = "home"
    /\ resetDue = FALSE
    /\ spyDue = FALSE
    /\ spySetUp = FALSE
    /\ reRendered = FALSE
    /\ expandedWorks = <<>>
    /\ bannerDue = FALSE
    /\ activeCode = ItemCodes[1]
    /\ overviewRow = [present |-> FALSE, scrollLeft |-> 0, scrollWidth |-> 100, clientWidth |-> 100]
    /\ rowRegistered = FALSE
    /\ scrollState = NoEntry
    /\ overviewDue = FALSE
    /\ rowFrame = FALSE
    /\ overviewMounted = FALSE

BannerNext ==
    \/ MountBanner
    \/ \E inner \in InnerWidths : \E y \in BannerScrolls : BannerHandle(inner, y)
    \/ BannerFrame

SpecBanner == BannerInit /\ [][BannerNext]_vars

\* The build wrapper before it spawns the build.
BuildInit ==
    /\ platform \in Platforms
    /\ processEnv \in [PUBLIC_URL : {"", "/", "/other"}]
    /\ buildPhase = "start"
    /\ childCommand = <<>>
    /\ childEnv = [PUBLIC_URL |-> ""]
    /\ closeEvent = NoClose
    /\ exitStatus = 0
    /\ hasWindow = TRUE
    /\ publicUrl = <<>>
    /\ locHash = <<>>
    /\ locPath = <<"/">>
    /\ routeMounted = FALSE
    /\ routeKey = <<>>
    /\ ROUTE_CONFIG = <<>>
    /\ portfolioMap = <<>>
    /\ upperFirst = FALSE
    /\ dataLoaded = FALSE
    /\ dataRouteKey = "default"
    /\ resolvedFrom = "none"
    /\ categories = <<>>
    /\ portfolioItems = <<>>
    /\ renderError = FALSE
    /\ dateInput = [form |-> "other", year |-> 0, month |-> 0, sep |-> "", padded |-> FALSE,
                   entry |-> 0, letterCase |-> "lower", text |-> <<>>]
    /\ dateText = <<>>
    /\ dateParsed = FALSE
    /\ dateKey = 0
    /\ dataset = <<>>
    /\ preferredGroups = <<>>
    /\ expLoaded = FALSE
    /\ experienceGroups = <<>>
    /\ enabled = FALSE
    /\ sections = <<>>
    /\ viewport = [height |-> 20, mobile |-> FALSE, navHeight |-> 0]
    /\ scrollY = 0
    /\ effectRan = FALSE
    /\ listening = FALSE
    /\ ticking = FALSE
    /\ rafQueue = 0
    /\ activePortfolio = Null
    /\ expandedCategories = <<>>
    /\ justEvaluated = FALSE
    /\ frameScrolls = 0
    /\ frameResizes = 0
    /\ currentCv = NoCv
    /\ defaultCv = NoCv
    /\ CV_ASSETS = {}
    /\ cvLoaded = FALSE
    /\ cvSettings = NoSettings
    /\ cvAssetLoaded = FALSE
    /\ cvAsset = <<>>
    /\ bannerPage = [present |-> FALSE, offset |-> 0, summaryBottom |-> 130, detailsBottom |-> 500]
    /\ bannerRect = [left |-> 16, width |-> 0, height |-> 40]
    /\ innerWidth = 0
    /\ bannerScrollY = 0
    /\ bannerMounted = FALSE
    /\ bannerListening = FALSE
    /\ bannerFrame = FALSE
    /\ floatingBannerState = NoBanner
    /\ selectedContent = "home"
    /\ isMobileNavOpen = FALSE
    /\ lastSection = "home"
    /\ resetDue = FALSE
    /\ spyDue = FALSE
    /\ spySetUp = FALSE
    /\ reRendered = FALSE
    /\ expandedWorks = <<>>
    /\ bannerDue = FALSE
    /\ activeCode = ItemCodes[1]
    /\ overviewRow = [present |-> FALSE, scrollLeft |-> 0, scrollWidth |-> 100, clientWidth |-> 100]
    /\ rowRegistered = FALSE
    /\ scrollState = NoEntry
    /\ overviewDue = FALSE
    /\ rowFrame = FALSE
    /\ overviewMounted = FALSE

BuildNext ==
    \/ SpawnBuild
    \/ \E event \in CloseEvents : ChildClose(event)

SpecBuild == BuildInit /\ [][BuildNext]_vars

\* Main before its first commit, for each page tried.
NavInit ==
    /\ selectedContent = "home"
    /\ isMobileNavOpen = FALSE
    /\ lastSection = "home"
    /\ resetDue = TRUE
    /\ spyDue = TRUE
    /\ spySetUp = FALSE
    /\ hasWindow = TRUE
    /\ publicUrl = <<>>
    /\ locHash = <<>>
    /\ locPath = <<"/">>
    /\ routeMounted = FALSE
    /\ routeKey = <<>>
    /\ ROUTE_CONFIG = <<>>
    /\ portfolioMap = <<>>
    /\ upperFirst = FALSE
    /\ dataLoaded = FALSE
    /\ dataRouteKey = "default"
    /\ resolvedFrom = "none"
    /\ categories = <<>>
    /\ portfolioItems = <<>>
    /\ renderError = FALSE
    /\ dateInput = [form |-> "other", year |-> 0, month |-> 0, sep |-> "", padded |-> FALSE,
                   entry |-> 0, letterCase |-> "lower", text |-> <<>>]
    /\ dateText = <<>>
    /\ dateParsed = FALSE
    /\ dateKey = 0
    /\ dataset = <<>>
    /\ preferredGroups = <<>>
    /\ expLoaded = FALSE
    /\ experienceGroups = <<>>
    /\ enabled = FALSE
    /\ sections \in NavLayouts
    /\ viewport \in Viewports
    /\ scrollY = 0
    /\ effectRan = FALSE
    /\ listening = FALSE
    /\ ticking = FALSE
    /\ rafQueue = 0
    /\ activePortfolio = Null
    /\ expandedCategories = <<>>
    /\ justEvaluated = FALSE
    /\ frameScrolls = 0
    /\ frameResizes = 0
    /\ currentCv = NoCv
    /\ defaultCv = NoCv
    /\ CV_ASSETS = {}
    /\ cvLoaded = FALSE
    /\ cvSettings = NoSettings
    /\ cvAssetLoaded = FALSE
    /\ cvAsset = <<>>
    /\ bannerPage = [present |-> FALSE, offset |-> 0, summaryBottom |-> 130, detailsBottom |-> 500]
    /\ bannerRect = [left |-> 16, width |-> 0, height |-> 40]
    /\ innerWidth = 0
    /\ bannerScrollY = 0
    /\ bannerMounted = FALSE
    /\ bannerListening = FALSE
    /\ bannerFrame = FALSE
    /\ floatingBannerState = NoBanner
    /\ platform = "linux"
    /\ processEnv = [PUBLIC_URL |-> ""]
    /\ buildPhase = "start"
    /\ childCommand = <<>>
    /\ childEnv = [PUBLIC_URL |-> ""]
    /\ closeEvent = NoClose
    /\ exitStatus = 0
    /\ reRendered = FALSE
    /\ expandedWorks = <<>>
    /\ bannerDue = FALSE
    /\ activeCode = ItemCodes[1]
    /\ overviewRow = [present |-> FALSE, scrollLeft |-> 0, scrollWidth |-> 100, clientWidth |-> 100]
    /\ rowRegistered = FALSE
    /\ scrollState = NoEntry
    /\ overviewDue = FALSE
    /\ rowFrame = FALSE
    /\ overviewMounted = FALSE

NavNext ==
    \/ CommitEffects
    \/ \E code \in RelatedWorks : HandlePortfolioNavClick(code)
    \/ \E key \in ContentKeys : HandleSelectContent(key)
    \/ \E y \in ScrollPositions : PageScroll(y)
    \/ NavFrame
    \/ \E i \in 1..Len(categoriesWithMatrix) : ToggleCategory(categoriesWithMatrix[i].name)
    \/ ToggleMobileNav

SpecNav == NavInit /\ [][NavNext]_vars

\* The page before its first render, for each location and each content of the JSON data files tried.
PageInit ==
    /\ reRendered = FALSE
    /\ hasWindow = TRUE
    /\ publicUrl = <<>>
    /\ locHash \in PageHashes
    /\ locPath \in PagePaths
    /\ routeMounted = FALSE
    /\ routeKey = <<>>
    /\ ROUTE_CONFIG \in PageConfigs
    /\ portfolioMap = PageMap
    /\ upperFirst = FALSE
    /\ dataLoaded = FALSE
    /\ dataRouteKey = "default"
    /\ resolvedFrom = "none"
    /\ categories = <<>>
    /\ portfolioItems = <<>>
    /\ renderError = FALSE
    /\ dateInput = [form |-> "other", year |-> 0, month |-> 0, sep |-> "", padded |-> FALSE,
                   entry |-> 0, letterCase |-> "lower", text |-> <<>>]
    /\ dateText = <<>>
    /\ dateParsed = FALSE
    /\ dateKey = 0
    /\ dataset = <<>>
    /\ preferredGroups = <<>>
    /\ expLoaded = FALSE
    /\ experienceGroups = <<>>
    /\ enabled = FALSE
    /\ sections = <<>>
    /\ viewport = [height |-> 20, mobile |-> FALSE, navHeight |-> 0]
    /\ scrollY = 0
    /\ effectRan = FALSE
    /\ listening = FALSE
    /\ ticking = FALSE
    /\ rafQueue = 0
    /\ activePortfolio = Null
    /\ expandedCategories = <<>>
    /\ justEvaluated = FALSE
    /\ frameScrolls = 0
    /\ frameResizes = 0
    /\ currentCv = NoCv
    /\ defaultCv = NoCv
    /\ CV_ASSETS = {}
    /\ cvLoaded = FALSE
    /\ cvSettings = NoSettings
    /\ cvAssetLoaded = FALSE
    /\ cvAsset = <<>>
    /\ bannerPage = [present |-> FALSE, offset |-> 0, summaryBottom |-> 130, detailsBottom |-> 500]
    /\ bannerRect = [left |-> 16, width |-> 0, height |-> 40]
    /\ innerWidth = 0
    /\ bannerScrollY = 0
    /\ bannerMounted = FALSE
    /\ bannerListening = FALSE
    /\ bannerFrame = FALSE
    /\ floatingBannerState = NoBanner
    /\ platform = "linux"
    /\ processEnv = [PUBLIC_URL |-> ""]
    /\ buildPhase = "start"
    /\ childCommand = <<>>
    /\ childEnv = [PUBLIC_URL |-> ""]
    /\ closeEvent = NoClose
    /\ exitStatus = 0
    /\ selectedContent = "home"
    /\ isMobileNavOpen = FALSE
    /\ lastSection = "home"
    /\ resetDue = TRUE
    /\ spyDue = TRUE
    /\ spySetUp = FALSE
    /\ expandedWorks = <<>>
    /\ bannerDue = FALSE
    /\ activeCode = ItemCodes[1]
    /\ overviewRow = [present |-> FALSE, scrollLeft |-> 0, scrollWidth |-> 100, clientWidth |-> 100]
    /\ rowRegistered = FALSE
    /\ scrollState = NoEntry
    /\ overviewDue = FALSE
    /\ rowFrame = FALSE
    /\ overviewMounted = FALSE

PageNext ==
    \/ MountRouteKey
    \/ LoadPortfolioOfRoute
    \/ \E hash \in PageHashes : \E path \in PagePaths : ChangeLocation(hash, path)
    \/ RenderMain
    \/ dataLoaded /\ NavEvent

SpecPage == PageInit /\ [][PageNext]_vars

\* The page with the portfolio selected, before the effect of usePortfolioScrollSpy has run.
FramesInit ==
    /\ enabled = TRUE
    /\ sections \in NavLayouts
    /\ viewport \in Viewports
    /\ scrollY \in ScrollPositions
    /\ effectRan = FALSE
    /\ listening = FALSE
    /\ ticking = FALSE
    /\ rafQueue = 0
    /\ activePortfolio = Null
    /\ expandedCategories = <<>>
    /\ justEvaluated = FALSE
    /\ frameScrolls = 0
    /\ frameResizes = 0
    /\ hasWindow = TRUE
    /\ publicUrl = <<>>
    /\ locHash = <<>>
    /\ locPath = <<"/">>
    /\ routeMounted = FALSE
    /\ routeKey = <<>>
    /\ ROUTE_CONFIG = <<>>
    /\ portfolioMap = <<>>
    /\ upperFirst = FALSE
    /\ dataLoaded = FALSE
    /\ dataRouteKey = "default"
    /\ resolvedFrom = "none"
    /\ categories = <<>>
    /\ portfolioItems = <<>>
    /\ renderError = FALSE
    /\ dateInput = [form |-> "other", year |-> 0, month |-> 0, sep |-> "", padded |-> FALSE,
                   entry |-> 0, letterCase |-> "lower", text |-> <<>>]
    /\ dateText = <<>>
    /\ dateParsed = FALSE
    /\ dateKey = 0
    /\ dataset = <<>>
    /\ preferredGroups = <<>>
    /\ expLoaded = FALSE
    /\ experienceGroups = <<>>
    /\ currentCv = NoCv
    /\ defaultCv = NoCv
    /\ CV_ASSETS = {}
    /\ cvLoaded = FALSE
    /\ cvSettings = NoSettings
    /\ cvAssetLoaded = FALSE
    /\ cvAsset = <<>>
    /\ bannerPage = [present |-> FALSE, offset |-> 0, summaryBottom |-> 130, detailsBottom |-> 500]
    /\ bannerRect = [left |-> 16, width |-> 0, height |-> 40]
    /\ innerWidth = 0
    /\ bannerScrollY = 0
    /\ bannerMounted = FALSE
    /\ bannerListening = FALSE
    /\ bannerFrame = FALSE
    /\ floatingBannerState = NoBanner
    /\ platform = "linux"
    /\ processEnv = [PUBLIC_URL |-> ""]
    /\ buildPhase = "start"
    /\ childCommand = <<>>
    /\ childEnv = [PUBLIC_URL |-> ""]
    /\ closeEvent = NoClose
    /\ exitStatus = 0
    /\ selectedContent = "home"
    /\ isMobileNavOpen = FALSE
    /\ lastSection = "home"
    /\ resetDue = FALSE
    /\ spyDue = FALSE
    /\ spySetUp = FALSE
    /\ reRendered = FALSE
    /\ expandedWorks = <<>>
    /\ bannerDue = FALSE
    /\ activeCode = ItemCodes[1]
    /\ overviewRow = [present |-> FALSE, scrollLeft |-> 0, scrollWidth |-> 100, clientWidth |-> 100]
    /\ rowRegistered = FALSE
    /\ scrollState = NoEntry
    /\ overviewDue = FALSE
    /\ rowFrame = FALSE
    /\ overviewMounted = FALSE

FramesNext ==
    \/ MountScrollSpy
    \/ \E y \in ScrollPositions : ScrollEvent(y)
    \/ \E view \in Viewports : ResizeEvent(view)
    \/ AnimationFrame

\* The browser runs the callbacks of requestAnimationFrame at its next frame: a
\* frame that stays due is eventually run.
SpecFrames == FramesInit /\ [][FramesNext]_vars /\ WF_vars(AnimationFrame)

\* Main before the first run of the effect of the floating banner.
FloatInit ==
    /\ expandedWorks = <<>>
    /\ bannerDue = TRUE
    /\ activeCode = ItemCodes[1]
    /\ hasWindow = TRUE
    /\ publicUrl = <<>>
    /\ locHash = <<>>
    /\ locPath = <<"/">>
    /\ routeMounted = FALSE
    /\ routeKey = <<>>
    /\ ROUTE_CONFIG = <<>>
    /\ portfolioMap = <<>>
    /\ upperFirst = FALSE
    /\ dataLoaded = FALSE
    /\ dataRouteKey = "default"
    /\ resolvedFrom = "none"
    /\ categories = <<>>
    /\ portfolioItems = <<>>
    /\ renderError = FALSE
    /\ dateInput = [form |-> "other", year |-> 0, month |-> 0, sep |-> "", padded |-> FALSE,
                   entry |-> 0, letterCase |-> "lower", text |-> <<>>]
    /\ dateText = <<>>
    /\ dateParsed = FALSE
    /\ dateKey = 0
    /\ dataset = <<>>
    /\ preferredGroups = <<>>
    /\ expLoaded = FALSE
    /\ experienceGroups = <<>>
    /\ enabled = FALSE
    /\ sections \in FloatLayouts
    /\ viewport = [height |-> 20, mobile |-> FALSE, navHeight |-> 0]
    /\ scrollY = 0
    /\ effectRan = FALSE
    /\ listening = FALSE
    /\ ticking = FALSE
    /\ rafQueue = 0
    /\ activePortfolio = Null
    /\ expandedCategories = <<>>
    /\ justEvaluated = FALSE
    /\ frameScrolls = 0
    /\ frameResizes = 0
    /\ currentCv = NoCv
    /\ defaultCv = NoCv
    /\ CV_ASSETS = {}
    /\ cvLoaded = FALSE
    /\ cvSettings = NoSettings
    /\ cvAssetLoaded = FALSE
    /\ cvAsset = <<>>
    /\ bannerPage \in BannerPages
    /\ bannerRect \in FloatRects
    /\ innerWidth \in InnerWidths
    /\ bannerScrollY \in BannerScrolls
    /\ bannerMounted = FALSE
    /\ bannerListening = FALSE
    /\ bannerFrame = FALSE
    /\ floatingBannerState = NoBanner
    /\ platform = "linux"
    /\ processEnv = [PUBLIC_URL |-> ""]
    /\ buildPhase = "start"
    /\ childCommand = <<>>
    /\ childEnv = [PUBLIC_URL |-> ""]
    /\ closeEvent = NoClose
    /\ exitStatus = 0
    /\ selectedContent = "home"
    /\ isMobileNavOpen = FALSE
    /\ lastSection = "home"
    /\ resetDue = FALSE
    /\ spyDue = FALSE
    /\ spySetUp = FALSE
    /\ reRendered = FALSE
    /\ overviewRow = [present |-> FALSE, scrollLeft |-> 0, scrollWidth |-> 100, clientWidth |-> 100]
    /\ rowRegistered = FALSE
    /\ scrollState = NoEntry
    /\ overviewDue = FALSE
    /\ rowFrame = FALSE
    /\ overviewMounted = FALSE

FloatNext ==
    \/ BannerEffect
    \/ \E code \in FloatCodes : SetActivePortfolio(code)
    \/ \E code \in sectionCodes(sections) : ToggleWork(code)
    \/ \E inner \in InnerWidths : \E y \in BannerScrolls : BannerHandle(inner, y)
    \/ BannerFrame

SpecFloat == FloatInit /\ [][FloatNext]_vars

\* PortfolioOverview before its first commit, for each row.
RowsInit ==
    /\ overviewRow \in OverviewRows
    /\ rowRegistered = FALSE
    /\ scrollState = NoEntry
    /\ overviewDue = TRUE
    /\ rowFrame = FALSE
    /\ overviewMounted = FALSE
    /\ hasWindow = TRUE
    /\ publicUrl = <<>>
    /\ locHash = <<>>
    /\ locPath = <<"/">>
    /\ routeMounted = FALSE
    /\ routeKey = <<>>
    /\ ROUTE_CONFIG = <<>>
    /\ portfolioMap = <<>>
    /\ upperFirst = FALSE
    /\ dataLoaded = FALSE
    /\ dataRouteKey = "default"
    /\ resolvedFrom = "none"
    /\ categories = <<>>
    /\ portfolioItems = <<>>
    /\ renderError = FALSE
    /\ dateInput = [form |-> "other", year |-> 0, month |-> 0, sep |-> "", padded |-> FALSE,
                   entry |-> 0, letterCase |-> "lower", text |-> <<>>]
    /\ dateText = <<>>
    /\ dateParsed = FALSE
    /\ dateKey = 0
    /\ dataset = <<>>
    /\ preferredGroups = <<>>
    /\ expLoaded = FALSE
    /\ experienceGroups = <<>>
    /\ enabled = FALSE
    /\ sections = <<>>
    /\ viewport = [height |-> 20, mobile |-> FALSE, navHeight |-> 0]
    /\ scrollY = 0
    /\ effectRan = FALSE
    /\ listening = FALSE
    /\ ticking = FALSE
    /\ rafQueue = 0
    /\ activePortfolio = Null
    /\ expandedCategories = <<>>
    /\ justEvaluated = FALSE
    /\ frameScrolls = 0
    /\ frameResizes = 0
    /\ currentCv = NoCv
    /\ defaultCv = NoCv
    /\ CV_ASSETS = {}
    /\ cvLoaded = FALSE
    /\ cvSettings = NoSettings
    /\ cvAssetLoaded = FALSE
    /\ cvAsset = <<>>
    /\ bannerPage = [present |-> FALSE, offset |-> 0, summaryBottom |-> 130, detailsBottom |-> 500]
    /\ bannerRect = [left |-> 16, width |-> 0, height |-> 40]
    /\ innerWidth = 0
    /\ bannerScrollY = 0
    /\ bannerMounted = FALSE
    /\ bannerListening = FALSE
    /\ bannerFrame = FALSE
    /\ floatingBannerState = NoBanner
    /\ platform = "linux"
    /\ processEnv = [PUBLIC_URL |-> ""]
    /\ buildPhase = "start"
    /\ childCommand = <<>>
    /\ childEnv = [PUBLIC_URL |-> ""]
    /\ closeEvent = NoClose
    /\ exitStatus = 0
    /\ selectedContent = "home"
    /\ isMobileNavOpen = FALSE
    /\ lastSection = "home"
    /\ resetDue = FALSE
    /\ spyDue = FALSE
    /\ spySetUp = FALSE
    /\ reRendered = FALSE
    /\ expandedWorks = <<>>
    /\ bannerDue = FALSE
    /\ activeCode = ItemCodes[1]

RowsNext == CommitOverview \/ RowFrame

\* React commits a render that is due, and the browser runs a frame requested.
SpecRows ==
    RowsInit /\ [][RowsNext]_vars /\ WF_vars(CommitOverview) /\ WF_vars(RowFrame)

\* The page before the effect of usePortfolioScrollSpy has run, for each layout.
Init ==
    /\ enabled \in BOOLEAN
    /\ sections \in Layouts
    /\ viewport \in Viewports
    /\ scrollY \in ScrollPositions
    /\ effectRan = FALSE
    /\ listening = FALSE
    /\ ticking = FALSE
    /\ rafQueue = 0
    /\ activePortfolio = Null
    /\ expandedCategories = <<>>
    /\ justEvaluated = FALSE
    /\ frameScrolls = 0
    /\ frameResizes = 0
    /\ hasWindow = TRUE
    /\ publicUrl = <<>>
    /\ locHash = <<>>
    /\ locPath = <<"/">>
    /\ routeMounted = FALSE
    /\ routeKey = <<>>
    /\ ROUTE_CONFIG = <<>>
    /\ portfolioMap = <<>>
    /\ upperFirst = FALSE
    /\ dataLoaded = FALSE
    /\ dataRouteKey = "default"
    /\ resolvedFrom = "none"
    /\ categories = <<>>
    /\ portfolioItems = <<>>
    /\ renderError = FALSE
    /\ dateInput = [form |-> "other", year |-> 0, month |-> 0, sep |-> "", padded |-> FALSE,
                   entry |-> 0, letterCase |-> "lower", text |-> <<>>]
    /\ dateText = <<>>
    /\ dateParsed = FALSE
    /\ dateKey = 0
    /\ dataset = <<>>
    /\ preferredGroups = <<>>
    /\ expLoaded = FALSE
    /\ experienceGroups = <<>>
    /\ currentCv = NoCv
    /\ defaultCv = NoCv
    /\ CV_ASSETS = {}
    /\ cvLoaded = FALSE
    /\ cvSettings = NoSettings
    /\ cvAssetLoaded = FALSE
    /\ cvAsset = <<>>
    /\ bannerPage = [present |-> FALSE, offset |-> 0, summaryBottom |-> 130, detailsBottom |-> 500]
    /\ bannerRect = [left |-> 16, width |-> 0, height |-> 40]
    /\ innerWidth = 0
    /\ bannerScrollY = 0
    /\ bannerMounted = FALSE
    /\ bannerListening = FALSE
    /\ bannerFrame = FALSE
    /\ floatingBannerState = NoBanner
    /\ platform = "linux"
    /\ processEnv = [PUBLIC_URL |-> ""]
    /\ buildPhase = "start"
    /\ childCommand = <<>>
    /\ childEnv = [PUBLIC_URL |-> ""]
    /\ closeEvent = NoClose
    /\ exitStatus = 0
    /\ selectedContent = "home"
    /\ isMobileNavOpen = FALSE
    /\ lastSection = "home"
    /\ resetDue = FALSE
    /\ spyDue = FALSE
    /\ spySetUp = FALSE
    /\ reRendered = FALSE
    /\ expandedWorks = <<>>
    /\ bannerDue = FALSE
    /\ activeCode = ItemCodes[1]
    /\ overviewRow = [present |-> FALSE, scrollLeft |-> 0, scrollWidth |-> 100, clientWidth |-> 100]
    /\ rowRegistered = FALSE
    /\ scrollState = NoEntry
    /\ overviewDue = FALSE
    /\ rowFrame = FALSE
    /\ overviewMounted = FALSE

Next ==
    \/ MountScrollSpy
    \/ \E y \in ScrollPositions : ScrollEvent(y)
    \/ \E view \in Viewports : ResizeEvent(view)
    \/ AnimationFrame

Spec == Init /\ [][Next]_vars

(***************************************************************************)
(* Properties of the route key resolver (under SpecRoute)                   *)
(***************************************************************************)

\* The first segment of a slash-separated text: what lies between its leading
\* slashes and the next slash.
FirstSegment(s) ==
    LET body == {i \in 1..Len(s) : s[i] # "/"}
    IN  IF body = {}
        THEN <<>>
        ELSE LET later == {j \in MinOf(body)..Len(s) : s[j] = "/"}
             IN  SubSeq(s, MinOf(body), IF later = {} THEN Len(s) ELSE MinOf(later) - 1)

\* The hash without its leading '#'.
HashBody == IF locHash # <<>> /\ Head(locHash) = "#" THEN Tail(locHash) ELSE locHash

\* The path below the base path the site is served from.
PathBelowBase == SubSeq(locPath, Len(publicUrl) + 1, Len(locPath))

\* C7: the route key is the lower-cased first hash segment when there is one, else
\* the lower-cased first path segment below the base path when there is one, else
\* "default"; it is never empty and the hash takes precedence over the path.
C7_RouteKey ==
    routeMounted =>
        /\ routeKey # <<>>
        /\ routeKey =
              IF ~hasWindow THEN Str_default
              ELSE IF FirstSegment(HashBody) # <<>>
                   THEN ToLowerCase(FirstSegment(HashBody))
              ELSE IF FirstSegment(PathBelowBase) # <<>>
                   THEN ToLowerCase(FirstSegment(PathBelowBase))
              ELSE Str_default

\* A location whose hash and path both have a segment, the two differing, the hash
\* segment holding an upper-case letter, served below a base path.
C7_Witness ==
    /\ routeMounted /\ hasWindow /\ publicUrl # <<>>
    /\ FirstSegment(HashBody) # <<>>
    /\ FirstSegment(PathBelowBase) # <<>>
    /\ ToLowerCase(FirstSegment(HashBody)) # ToLowerCase(FirstSegment(PathBelowBase))
    /\ ToLowerCase(FirstSegment(HashBody)) # FirstSegment(HashBody)
    /\ routeKey = ToLowerCase(FirstSegment(HashBody))

(***************************************************************************)
(* Properties of the portfolio data composer (under SpecData)               *)
(***************************************************************************)

\* The codes of the code-to-name map that have a non-empty name.
NamedCodes == {c \in DOMAIN portfolioMap : portfolioMap[c] # ""}

\* The codes of the items of a category list, and whether none is repeated.
CodesOf(items) == {items[i].code : i \in 1..Len(items)}
NoRepeat(items) ==
    \A i \in 1..Len(items) : \A j \in 1..Len(items) :
        i # j => items[i].code # items[j].code

\* Exactly one category, which holds every named code once.
OneCategoryOfAllNamed(cats) ==
    /\ Len(cats) = 1
    /\ CodesOf(cats[1].items) = NamedCodes
    /\ NoRepeat(cats[1].items)

OwnBuilt == buildCategories(currentEntry(dataRouteKey))
DefaultBuilt == buildCategories(DEFAULT_ROUTE_ENTRY)

\* C1 as stated: the route's categories, else the default route's, else exactly one
\* synthesized category of all named codes; an absent route key gives what the
\* default route gives.
C1_Original ==
    dataLoaded =>
        /\ OwnBuilt # <<>> => categories = OwnBuilt
        /\ OwnBuilt = <<>> /\ DefaultBuilt # <<>> => categories = DefaultBuilt
        /\ OwnBuilt = <<>> /\ DefaultBuilt = <<>> => OneCategoryOfAllNamed(categories)
        /\ dataRouteKey \notin DOMAIN ROUTE_CONFIG =>
              categories = usePortfolioCategories("default").categories

\* C1 (amended): as stated, but when neither the route nor the default route gives
\* a category the result is one synthesized category of all named codes only if
\* some code has a name, and no category at all otherwise.
C1_Fallback ==
    dataLoaded =>
        /\ OwnBuilt # <<>> => categories = OwnBuilt
        /\ OwnBuilt = <<>> /\ DefaultBuilt # <<>> => categories = DefaultBuilt
        /\ OwnBuilt = <<>> /\ DefaultBuilt = <<>> =>
              IF NamedCodes # {}
              THEN OneCategoryOfAllNamed(categories)
              ELSE categories = <<>>
        /\ dataRouteKey \notin DOMAIN ROUTE_CONFIG =>
              categories = usePortfolioCategories("default").categories

\* A route key absent from the configuration that gets the default route's categories.
C1_Witness ==
    /\ dataLoaded
    /\ dataRouteKey \notin DOMAIN ROUTE_CONFIG
    /\ "default" \in DOMAIN ROUTE_CONFIG
    /\ resolvedFrom = "default"
    /\ categories # <<>>
    /\ categories = DefaultBuilt

\* The categories object the result was built from, when it was built from one.
UsedSource ==
    CASE resolvedFrom = "route" -> currentEntry(dataRouteKey).categories
      [] resolvedFrom = "default" -> DEFAULT_ROUTE_ENTRY.categories
      [] OTHER -> <<>>

\* A configured code names a canonical code when the two are equal but for letter
\* case and surrounding white space.
Names(rawCode, code) == ToLowerCase(Trim(rawCode)) = ToLowerCase(code)

\* A source category lists a code when one of its configured codes names it.
Lists(category, code) ==
    \E i \in 1..Len(category.codes) : Names(category.codes[i], code)

\* The name of the first category of the source that lists the code.
FirstListing(source, code) ==
    source[MinOf({i \in 1..Len(source) : Lists(source[i], code)})].name

\* C2: no code appears twice in the categories, within one or across several, nor
\* in the flat item list; a code is placed in the first category, in configuration
\* order, that lists it in any letter case.
C2_FirstCategoryWins ==
    dataLoaded =>
        /\ NoRepeat(flatItems(categories))
        /\ NoRepeat(portfolioItems)
        /\ resolvedFrom \in {"route", "default"} =>
              \A i \in 1..Len(categories) : \A k \in 1..Len(categories[i].items) :
                 /\ \E j \in 1..Len(UsedSource) :
                       Lists(UsedSource[j], categories[i].items[k].code)
                 /\ categories[i].name =
                       FirstListing(UsedSource, categories[i].items[k].code)
                 /\ categories[i].items[k].category = categories[i].name

\* Two categories list the same code, in different spellings; it is emitted once,
\* in the first.
C2_Witness ==
    /\ dataLoaded /\ resolvedFrom = "route"
    /\ Len(UsedSource) = 2
    /\ \E c \in NamedCodes :
          /\ Lists(UsedSource[1], c) /\ Lists(UsedSource[2], c)
          /\ UsedSource[1].codes # UsedSource[2].codes
          /\ Len(categories) = 1
          /\ categories[1].name = UsedSource[1].name
          /\ CodesOf(categories[1].items) = {c}

\* C9: every item of every category (from a route, the default route or synthesized)
\* has a code that is a key of the code-to-name map with a non-empty name, and
\* carries that name; no item is without a name.
C9_ItemsAreNamed ==
    dataLoaded =>
        /\ \A i \in 1..Len(categories) : \A k \in 1..Len(categories[i].items) :
              /\ categories[i].items[k].code \in NamedCodes
              /\ categories[i].items[k].name = portfolioMap[categories[i].items[k].code]
        /\ \A k \in 1..Len(portfolioItems) :
              /\ portfolioItems[k].code \in NamedCodes
              /\ portfolioItems[k].name = portfolioMap[portfolioItems[k].code]

\* A route lists a code whose name is empty beside one with a name: only the
\* latter is emitted.
C9_Witness ==
    /\ dataLoaded /\ resolvedFrom = "route"
    /\ categories # <<>>
    /\ \E c \in DOMAIN portfolioMap \ NamedCodes :
          /\ \E j \in 1..Len(UsedSource) : Lists(UsedSource[j], c)
          /\ \A d \in DOMAIN portfolioMap : ToLowerCase(d) = ToLowerCase(c) => d = c
          /\ c \notin CodesOf(flatItems(categories))

\* The configured codes of a source, and the canonical codes a configured code names.
RawCodesOf(source) ==
    UNION {{source[j].codes[i] : i \in 1..Len(source[j].codes)} : j \in 1..Len(source)}
NamedBy(rawCode) == {c \in DOMAIN portfolioMap : Names(rawCode, c)}

\* Among canonical codes equal but for letter case, the one sorting last.
SortsLast(code) ==
    \A d \in DOMAIN portfolioMap :
        d # code /\ ToLowerCase(d) = ToLowerCase(code) => localeCompareLess(d, code)

\* A source without the configured codes that name no canonical code.
RECURSIVE WithoutUnmatched(_)
WithoutUnmatched(source) ==
    IF source = <<>> THEN <<>>
    ELSE <<[name |-> Head(source).name,
            codes |-> SelectSeq(Head(source).codes, LAMBDA r : NamedBy(r) # {})]>>
          \o WithoutUnmatched(Tail(source))

C10_Resolves ==
    dataLoaded /\ resolvedFrom \in {"route", "default"} =>
        /\ \A r \in RawCodesOf(UsedSource) : \A c \in NamedBy(r) :
              c \in NamedCodes /\ SortsLast(c) => c \in CodesOf(flatItems(categories))
        /\ \A c \in CodesOf(flatItems(categories)) :
              c \in DOMAIN portfolioMap /\ SortsLast(c)
        /\ categories = buildFrom(WithoutUnmatched(UsedSource), {})

\* A route lists a padded code in another letter case, which is emitted in its
\* canonical spelling, and an unknown code before it.
C10_Witness ==
    /\ dataLoaded /\ resolvedFrom = "route"
    /\ Len(UsedSource) >= 1 /\ Len(UsedSource[1].codes) = 2
    /\ NamedBy(UsedSource[1].codes[1]) = {}
    /\ \E c \in NamedCodes :
          /\ NamedBy(UsedSource[1].codes[2]) = {c}
          /\ UsedSource[1].codes[2] # c
          /\ Trim(UsedSource[1].codes[2]) # UsedSource[1].codes[2]
          /\ CodesOf(flatItems(categories)) = {c}

(***************************************************************************)
(* Properties of the order of categories and items (under SpecData)         *)
(***************************************************************************)

\* The canonical code a configured code resolves to, <<>> when it resolves to none.
ResolvedCode(rawCode) == normalizedGet(lookupKey(rawCode))

\* The configured code at place j of category i of a source is kept: it resolves
\* to a code with a name that no earlier place of the source resolves to.
KeptAt(source, i, j) ==
    /\ ResolvedCode(source[i].codes[j]) # <<>>
    /\ ResolvedCode(source[i].codes[j]) \in NamedCodes
    /\ \A k \in 1..i : \A l \in 1..Len(source[k].codes) :
          (k < i \/ l < j)
            => ResolvedCode(source[k].codes[l]) # ResolvedCode(source[i].codes[j])

Indices(n) == [i \in 1..n |-> i]

\* The codes kept of category i, in the order of its configured list.
KeptCodes(source, i) ==
    LET kept == SelectSeq(Indices(Len(source[i].codes)), LAMBDA j : KeptAt(source, i, j))
    IN  [k \in 1..Len(kept) |-> ResolvedCode(source[i].codes[kept[k]])]

\* The categories with a kept code, in the order of the source.
KeptCategories(source) ==
    LET kept == SelectSeq(Indices(Len(source)), LAMBDA i : KeptCodes(source, i) # <<>>)
    IN  [k \in 1..Len(kept) |->
            [name |-> source[kept[k]].name, codes |-> KeptCodes(source, kept[k])]]

\* The names of the categories returned, each with the codes of its items.
EmittedCategories ==
    [k \in 1..Len(categories) |->
        [name |-> categories[k].name,
         codes |-> [i \in 1..Len(categories[k].items) |-> categories[k].items[i].code]]]

\* The items of a list of categories, one category after the other.
RECURSIVE Concatenation(_)
Concatenation(cats) ==
    IF cats = <<>> THEN <<>> ELSE cats[1].items \o Concatenation(Tail(cats))

\* C20: the categories built from a route configuration are its categories with a
\* kept code, in its order, each with its kept codes in the order of its list; no
\* category returned is empty; and the flat item list is the items of the
\* categories, one category after the other.
C20_ConfigurationOrder ==
    dataLoaded =>
        /\ resolvedFrom \in {"route", "default"}
              => EmittedCategories = KeptCategories(UsedSource)
        /\ \A k \in 1..Len(categories) : categories[k].items # <<>>
        /\ portfolioItems = Concatenation(categories)

\* One category with two items in the order of its list, which is not the
\* alphabetical one, was built from a route's own configuration.
C20_Witness ==
    /\ dataLoaded
    /\ resolvedFrom = "route"
    /\ Len(categories) = 1
    /\ Len(categories[1].items) = 2
    /\ categories[1].items[1].code = <<"b">>
    /\ Len(portfolioItems) = 2

(***************************************************************************)
(* Properties of parseDateKey (under SpecDate)                              *)
(***************************************************************************)

Text_2023_slash_05 == <<"2", "0", "2", "3", "/", "0", "5">>
Text_May_2023 == <<"M", "a", "y", " ", "2", "0", "2", "3">>
Text_2023_dash_05 == <<"2", "0", "2", "3", "-", "0", "5">>

\* C6: parseDateKey gives one key, 202305, to "2023/05", "May 2023" and "2023-05";
\* and once a date text is parsed, if it is the year-first numeric form of a year
\* and a month with the separator '/', '-' or '.', or a month name or abbreviation
\* followed by the year, its key is year * 100 + month.
C6_SameKey ==
    /\ parseDateKey(Text_2023_slash_05) = 202305
    /\ parseDateKey(Text_May_2023) = 202305
    /\ parseDateKey(Text_2023_dash_05) = 202305
    /\ (dateParsed /\ dateInput.form \in {"numeric", "name"})
         => dateKey = dateInput.year * 100 + dateInput.month

\* "Sept-1987", "2023.5" or the like has been parsed: a month name of MONTH_MAP
\* that is neither the three-letter nor the full one, and a numeric month with no
\* leading zero after a dot.
C6_Witness ==
    /\ dateParsed
    /\ \/ /\ dateInput.form = "name"
          /\ MONTH_MAP[dateInput.entry].name = <<"s", "e", "p", "t">>
          /\ dateInput.letterCase = "Capitalised"
          /\ dateKey = dateInput.year * 100 + 9
       \/ /\ dateInput.form = "numeric"
          /\ dateInput.sep = "."
          /\ ~dateInput.padded
          /\ dateInput.month = 5
          /\ dateKey = dateInput.year * 100 + 5

\* The year a two-digit year stands for.
CenturyYear(yy) == IF yy >= 50 THEN 1900 + yy ELSE 2000 + yy

\* C19: "49/05" and "May 49" are read as May 2049, "50/05" and "May 50" as May
\* 1950; once a date text is parsed, if its year is written with two digits yy
\* (1..99), in the numeric or the month-name form, its key is that of the year
\* 1900 + yy when yy >= 50 and 2000 + yy when yy < 50; if its year is written with
\* four digits, the year of its key is that year.
C19_Pivot ==
    /\ parseDateKey(<<"4", "9", "/", "0", "5">>) = 204905
    /\ parseDateKey(<<"M", "a", "y", " ", "4", "9">>) = 204905
    /\ parseDateKey(<<"5", "0", "/", "0", "5">>) = 195005
    /\ parseDateKey(<<"M", "a", "y", " ", "5", "0">>) = 195005
    /\ (dateParsed /\ dateInput.form \in {"numeric-short", "name-short"})
         => dateKey = CenturyYear(dateInput.year) * 100 + dateInput.month
    /\ (dateParsed /\ dateInput.form \in {"numeric", "name"} /\ dateInput.year >= 1000)
         => dateKey \div 100 = dateInput.year

\* "Dec-50" or the like has been parsed as a month of 1950.
C19_Witness ==
    /\ dateParsed
    /\ dateInput.form = "name-short"
    /\ dateInput.year = 50
    /\ dateInput.sep = "-"
    /\ dateKey \div 100 = 1950

(***************************************************************************)
(* Properties of the experience groups (under SpecExp)                      *)
(***************************************************************************)

\* An entry's end key: its parsed end date, or its parsed begin date when the end
\* date parses to 0.
EndKeyOf(item) ==
    IF parseDateKey(item.entry.end) # 0
    THEN parseDateKey(item.entry.end)
    ELSE parseDateKey(item.entry.begin)

Descending(items) ==
    \A i \in 1..Len(items) : \A j \in 1..Len(items) :
        EndKeyOf(items[i]) > EndKeyOf(items[j]) => i < j

\* C5: in every group returned by useExperienceData, an entry whose end key is
\* greater than another's comes before it.
C5_DescendingEndKey ==
    expLoaded => \A g \in 1..Len(experienceGroups) : Descending(experienceGroups[g].items)

\* A group of three entries has been returned in which an entry that comes later in
\* the dataset was moved before an earlier one, and in which one entry has an end
\* date that parses to 0.
C5_Witness ==
    /\ expLoaded
    /\ \E g \in 1..Len(experienceGroups) :
         /\ Len(experienceGroups[g].items) = 3
         /\ \E i \in 1..3 : \E j \in 1..3 :
              /\ i < j
              /\ experienceGroups[g].items[i].index > experienceGroups[g].items[j].index
              /\ EndKeyOf(experienceGroups[g].items[i])
                   > EndKeyOf(experienceGroups[g].items[j])
         /\ \E i \in 1..3 : parseDateKey(experienceGroups[g].items[i].entry.end) = 0

\* An entry's begin key: its parsed begin date.
BeginKeyOf(item) == parseDateKey(item.entry.begin)

TiesByBegin(items) ==
    \A i \in 1..Len(items) : \A j \in 1..Len(items) :
        (EndKeyOf(items[i]) = EndKeyOf(items[j]) /\ BeginKeyOf(items[i]) > BeginKeyOf(items[j]))
          => i < j

\* C14: in every group returned, of two entries with equal end keys the one with
\* the greater parsed begin date comes first.
C14_TiesByBeginKey ==
    expLoaded => \A g \in 1..Len(experienceGroups) : TiesByBegin(experienceGroups[g].items)

\* A group has been returned in which two entries with equal end keys were
\* exchanged: the one that begins later comes later in the dataset and first in
\* the group.
C14_Witness ==
    /\ expLoaded
    /\ \E g \in 1..Len(experienceGroups) :
         \E i \in 1..Len(experienceGroups[g].items) :
           \E j \in 1..Len(experienceGroups[g].items) :
              /\ i < j
              /\ experienceGroups[g].items[i].index > experienceGroups[g].items[j].index
              /\ EndKeyOf(experienceGroups[g].items[i])
                   = EndKeyOf(experienceGroups[g].items[j])
              /\ BeginKeyOf(experienceGroups[g].items[i])
                   > BeginKeyOf(experienceGroups[g].items[j])

(***************************************************************************)
(* Properties of the scroll-spy (under Spec)                                *)
(***************************************************************************)

\* The edges of section i in the window, less the scroll offset, as the last
\* evaluation measured them.
AdjustedTop(i) == sections[i].top - scrollY - getScrollOffset(viewport)
AdjustedBottom(i) == sections[i].bottom - scrollY - getScrollOffset(viewport)

\* The section overlaps the band from 35% to 75% of the viewport height.
InFocusBand(i) ==
    /\ AdjustedTop(i) * 100 <= viewport.height * 75
    /\ AdjustedBottom(i) * 100 >= viewport.height * 35

\* The section lies wholly above the band.
AboveFocusBand(i) == AdjustedBottom(i) * 100 < viewport.height * 35

SectionIndices == 1..Len(sections)

\* C3: right after an evaluation of the scroll-spy, if at least one registered
\* section overlaps the focus band, the code passed to onActiveChange is not null
\* and is the code of a registered section.
C3_OneActive ==
    (justEvaluated /\ \E i \in SectionIndices : InFocusBand(i))
      => /\ activePortfolio # Null
         /\ \E i \in SectionIndices : sections[i].code = activePortfolio

\* An evaluation run from a frame callback or a resize has nominated a section
\* while two sections overlap the band.
C3_Witness ==
    /\ justEvaluated
    /\ frameScrolls + frameResizes > 0 \/ scrollY > 0
    /\ Cardinality({i \in SectionIndices : InFocusBand(i)}) >= 2
    /\ \E i \in SectionIndices : sections[i].code = activePortfolio

\* C4: right after an evaluation, if no section overlaps the focus band and some
\* section lies above it, the section nominated is the nearest one above the band.
C4_Original ==
    (/\ justEvaluated
     /\ ~\E i \in SectionIndices : InFocusBand(i)
     /\ \E i \in SectionIndices : AboveFocusBand(i))
      => activePortfolio
           = sections[MaxOf({i \in SectionIndices : AboveFocusBand(i)})].code

\* What the code does when no section overlaps the band: the last section is
\* nominated if it lies above the band, and no section otherwise.
C4_LastSectionOnly ==
    (justEvaluated /\ ~\E i \in SectionIndices : InFocusBand(i))
      => activePortfolio
           = IF AboveFocusBand(Len(sections)) THEN sections[Len(sections)].code ELSE Null

\* C8: of the scroll and resize events delivered since the last animation frame, at
\* most one evaluation results: those already run by resize events and the one
\* requested for the next frame are at most one together.
C8_Original == frameResizes + rafQueue <= 1

\* What the code does: the scroll events since the last frame have requested at most
\* one frame callback, and ticking tells whether one is requested.
C8_ScrollsCoalesced == rafQueue <= 1 /\ (ticking <=> rafQueue = 1)

(***************************************************************************)
(* Properties of the visibility filter (under SpecVisibility)               *)
(***************************************************************************)

\* The positions in the dataset of the entries returned, in any group.
IncludedEntries ==
    UNION {{experienceGroups[g].items[i].index : i \in 1..Len(experienceGroups[g].items)} :
             g \in 1..Len(experienceGroups)}

\* No group is supplied: null, an empty list, or blank names only.
NoGroupSupplied ==
    \A i \in 1..Len(preferredGroups) : preferredGroups[i] \in {"", " "}

\* An entry tagged for the group 'show_default', as the code reads its tags: by a
\* showGroups naming it or, showGroups being empty, by its showDefault flag or by
\* having no tag at all.
MatchesDefaultGroup(tags) ==
    IF tags.showGroups # <<>>
    THEN \E i \in 1..Len(tags.showGroups) : tags.showGroups[i] = "show_default"
    ELSE TRUE

\* C13: once the experience groups are computed, if no group was supplied the
\* entries returned are those the filter {'show_default'} lets through, and the
\* result is the one the list ['show_default'] gives; if the supplied groups contain
\* 'show_all', every entry of the dataset is returned.
C13_Filter ==
    expLoaded =>
      /\ NoGroupSupplied =>
           /\ experienceGroups = useExperienceData(dataset, <<"show_default">>)
           /\ IncludedEntries
                = {i \in 1..Len(dataset) : MatchesDefaultGroup(dataset[i].entry.visibility)}
      /\ (\E i \in 1..Len(preferredGroups) : preferredGroups[i] = "show_all")
           => IncludedEntries = 1..Len(dataset)

\* Blank names only were supplied for a dataset of three entries of which the
\* default filter returns some and not all.
C13_Witness ==
    /\ expLoaded
    /\ preferredGroups = <<" ", "">>
    /\ Len(dataset) = 3
    /\ IncludedEntries # {}
    /\ IncludedEntries # 1..3

\* Date texts with no digit in them: no year can be read from them.
YearlessTexts ==
    {<<>>, <<"n", "o", "w">>, <<"t", "b", "d">>, <<"M", "a", "y">>, <<" ", "-", " ">>,
     <<"nian", "yue">>}

HasDigit(text) == \E i \in 1..Len(text) : text[i] \in Digits

\* An entry with a date that parses, and an entry with none.
HasParsableDate(item) == HasDigit(item.entry.begin) \/ HasDigit(item.entry.end)

UnparsableLast(items) ==
    \A i \in 1..Len(items) : \A j \in 1..Len(items) :
        (~HasParsableDate(items[i]) /\ HasParsableDate(items[j])) => j < i

\* C15: parseDateKey gives 0 for a text with no year in it, and in every group
\* returned an entry neither of whose dates parses comes after every entry that
\* has a date that parses.
C15_UnparsableLast ==
    /\ \A text \in YearlessTexts : parseDateKey(text) = 0
    /\ expLoaded =>
         \A g \in 1..Len(experienceGroups) : UnparsableLast(experienceGroups[g].items)

\* A group of three has been returned whose last entry, the first of the dataset,
\* has no date that parses, the two before it having one.
C15_Witness ==
    /\ expLoaded
    /\ \E g \in 1..Len(experienceGroups) :
         /\ Len(experienceGroups[g].items) = 3
         /\ experienceGroups[g].items[3].index = 1
         /\ ~HasParsableDate(experienceGroups[g].items[3])
         /\ HasParsableDate(experienceGroups[g].items[1])
         /\ HasParsableDate(experienceGroups[g].items[2])

(***************************************************************************)
(* Malformed route configurations, under SpecMalformed.                    *)
(***************************************************************************)

\* Some list of the entry holds an entry that is not a string.
HasNonString(entry) ==
    \E i \in 1..Len(entry.categories) :
        \E j \in 1..Len(entry.categories[i].codes) :
            entry.categories[i].codes[j] = NotAString

\* Some category of the entry has a value that is not a list.
HasNonList(entry) ==
    \E i \in 1..Len(entry.categories) : ~entry.categories[i].isArray

\* C12: composing the categories of a malformed route configuration (no categories
\* object, a category whose value is not a list, a list with an unknown code or
\* with an entry that is not a string) raises no error, and when the route's own
\* configuration yields nothing the categories are those of the default route.
C12_Original ==
    /\ ~renderError
    /\ (dataLoaded /\ resolvedFrom = "default") =>
           categories = buildCategories(DEFAULT_ROUTE_ENTRY)

\* What the code does: the render throws only when a list read by it holds an
\* entry that is not a string; a missing categories object, a value that is not
\* a list and an unknown code raise nothing.
C12_ThrowsOnNonStringOnly ==
    renderError =>
        \/ HasNonString(currentEntry(dataRouteKey))
        \/ HasNonString(DEFAULT_ROUTE_ENTRY)

\* A route whose only category is not a list has been rendered without error and
\* shows the categories of the default route.
C12_NonListFallsBack ==
    /\ dataLoaded
    /\ ~renderError
    /\ HasNonList(currentEntry(dataRouteKey))
    /\ resolvedFrom = "default"
    /\ categories # <<>>

(***************************************************************************)
(* The CV download, under SpecCv.                                           *)
(***************************************************************************)

\* The asset the route's cv value configures, and the default route's.
ConfiguredAsset == normaliseCvRoute(currentCv).asset
DefaultAsset == normaliseCvRoute(defaultCv).asset

\* The route configures an asset that is not among the bundled files.
ConfiguredAssetMissing == ConfiguredAsset # <<>> /\ ConfiguredAsset \notin CV_ASSETS

\* C11: when the asset configured for the route is missing from the bundled CV
\* assets, the download is the default route's asset, and it is null only when
\* that is missing too.
C11_Original ==
    (cvLoaded /\ ConfiguredAssetMissing) =>
        cvSettings.downloadUrl = downloadUrl(DefaultAsset, CV_ASSETS)

\* What cvSettings does: the default route's asset is used only when the route
\* configures none; a configured asset that is not bundled gives no download.
C11_NoFallbackForMissing ==
    cvLoaded =>
        /\ ConfiguredAssetMissing => cvSettings.downloadUrl = <<>>
        /\ ConfiguredAsset = <<>> =>
               cvSettings.downloadUrl
                   = downloadUrl(orElse(DefaultAsset, rawDefaultAsset(defaultCv)), CV_ASSETS)

\* The route's asset is not bundled, the default route's is, and the settings
\* composed hold no download.
C11_MissingGivesNull ==
    /\ cvLoaded
    /\ ConfiguredAssetMissing
    /\ DefaultAsset \in CV_ASSETS
    /\ cvSettings.downloadUrl = <<>>

\* The cvAsset of utils/portfolioAssets.ts is a URL whatever the route configures.
C11_LegacyNeverNull == cvAssetLoaded => cvAsset # <<>>

(***************************************************************************)
(* The floating banner, under SpecBanner.                                   *)
(***************************************************************************)

\* The banner is shown as update() placed it for the present window: no frame
\* is requested.
BannerShown == floatingBannerState.code # Null /\ ~bannerFrame

\* C16 as stated: for every banner rectangle and every viewport width the banner
\* shown has left >= 16, width >= 0 and left + width <= viewport width - 16.
C16_Original ==
    BannerShown =>
        /\ floatingBannerState.left >= safeMargin
        /\ floatingBannerState.width >= 0
        /\ floatingBannerState.left + floatingBannerState.width
               <= innerWidth - safeMargin

\* C16: the banner shown has left >= 16 and width >= 0, and in a viewport at
\* least as wide as the two margins left + width <= viewport width - 16.
C16_WithinMargins ==
    BannerShown =>
        /\ floatingBannerState.left >= safeMargin
        /\ floatingBannerState.width >= 0
        /\ innerWidth >= 2 * safeMargin =>
               floatingBannerState.left + floatingBannerState.width
                   <= innerWidth - safeMargin

\* A banner that began left of the margin and wider than the window is shown
\* after a resize, narrowed to the width between the margins.
C16_Witness ==
    /\ BannerShown
    /\ bannerRect.left < safeMargin
    /\ bannerRect.left + bannerRect.width > innerWidth
    /\ innerWidth >= 2 * safeMargin
    /\ floatingBannerState.left = safeMargin
    /\ floatingBannerState.width = innerWidth - 2 * safeMargin

(***************************************************************************)
(* The build wrapper, under SpecBuild.                                      *)
(***************************************************************************)

\* The child completed successfully: it exited by itself with code 0.
ChildSucceeded == closeEvent.exited /\ closeEvent.code = 0

\* C18 as stated: the wrapper exits 0 only when the child completed successfully,
\* and with the child's code when it exited by itself; it exits non-zero when the
\* child exited with a non-zero code or was ended by a signal.
C18_Original ==
    buildPhase = "exited" =>
        /\ closeEvent.exited => exitStatus = closeEvent.code
        /\ exitStatus = 0 <=> ChildSucceeded

\* What the wrapper does: the code of a child that exited by itself is passed on,
\* and a child ended by a signal gives exit status 0.
C18_CodeOrZero ==
    buildPhase = "exited" =>
        /\ closeEvent.exited => exitStatus = closeEvent.code
        /\ ~closeEvent.exited => exitStatus = 0

\* The child was ended by SIGKILL and the wrapper has exited with status 0.
C18_SignalGivesZero ==
    /\ buildPhase = "exited"
    /\ closeEvent.signal = "SIGKILL"
    /\ exitStatus = 0

(***************************************************************************)
(* The active work on a page with no section, under SpecNav.                *)
(***************************************************************************)

\* The effect of usePortfolioScrollSpy has just run on a page where it finds no
\* section element.
SetUpWithoutSections == spySetUp /\ Len(sections) = 0

\* C17: when no portfolio section element is present, the active portfolio code
\* is null after the scroll-spy is set up, whatever it was before.
C17_Original == SetUpWithoutSections => activePortfolio = Null

\* The scroll-spy has been set up again on a page with no section while a work
\* navigated to from the CV is active.
C17_StaleAfterSetUp ==
    /\ SetUpWithoutSections
    /\ enabled
    /\ activePortfolio = "w9"

(***************************************************************************)
(* The default filter, under SpecVisibility.                                *)
(***************************************************************************)

\* An entry tagged for default display: its showGroups names 'show_default', or
\* its showGroups is empty and its showDefault flag is true.
TaggedForDefault(tags) ==
    IF tags.showGroups # <<>>
    THEN \E i \in 1..Len(tags.showGroups) : tags.showGroups[i] = "show_default"
    ELSE tags.showDefault

\* C30: when no group is requested, every entry returned is tagged for default
\* display; an entry with empty showGroups and showDefault false is not returned.
C30_Original ==
    (expLoaded /\ NoGroupSupplied) =>
        \A i \in IncludedEntries : TaggedForDefault(dataset[i].entry.visibility)

\* What the code does: with no group requested the entries returned are those
\* tagged for default display and those with empty showGroups, whatever their
\* showDefault flag.
C30_UntaggedShown ==
    (expLoaded /\ NoGroupSupplied) =>
        IncludedEntries
            = {i \in 1..Len(dataset) :
                 \/ TaggedForDefault(dataset[i].entry.visibility)
                 \/ dataset[i].entry.visibility.showGroups = <<>>}

\* No group was requested and an entry with empty showGroups and showDefault
\* false has been returned.
C30_HiddenEntryShown ==
    /\ expLoaded
    /\ preferredGroups = <<>>
    /\ \E i \in IncludedEntries :
         /\ dataset[i].entry.visibility.showGroups = <<>>
         /\ ~dataset[i].entry.visibility.showDefault

(***************************************************************************)
(* The route key and the portfolio after the load, under SpecPage.          *)
(***************************************************************************)

\* C21: once computed, the route key, the categories and the portfolio items are
\* changed by no step: no event, no change of the location and no later render.
C21_ComputedOnce ==
    [][/\ routeMounted => (routeMounted' /\ routeKey' = routeKey)
       /\ dataLoaded => /\ dataLoaded'
                        /\ categories' = categories
                        /\ portfolioItems' = portfolioItems]_vars

\* Main has rendered again after the location changed to one that gives another
\* route key than the one in use, with other categories configured for it.
C21_Witness ==
    /\ dataLoaded
    /\ reRendered
    /\ routeKey # useRouteKey(hasWindow, locHash, locPath, publicUrl)
    /\ routeName(routeKey) = "default"
    /\ "r" \in DOMAIN ROUTE_CONFIG
    /\ useRouteKey(hasWindow, locHash, locPath, publicUrl) = <<"r">>
    /\ selectedContent = "portfolio"

(***************************************************************************)
(* The active work of Main, under SpecNav.                                  *)
(***************************************************************************)

EffectsRan == ~resetDue /\ ~spyDue

\* C24: once the effects have run, the active portfolio code is null or the code
\* of an item of portfolioItems, also after a navigation from a related work
\* of the CV.
C24_Original == EffectsRan => activePortfolio \in {Null} \cup sectionCodes(sections)

\* What the code does: a code that is no portfolio item is active only with the
\* portfolio selected, where handlePortfolioNavClick put it; the reset of Main
\* removes it when it runs.
C24_ForeignOnlyOnPortfolio ==
    (EffectsRan /\ activePortfolio \notin {Null} \cup sectionCodes(sections))
        => selectedContent = "portfolio"

\* A related work that is no portfolio item is active on a page with items,
\* after the effects have run.
C24_ForeignActive ==
    /\ EffectsRan
    /\ Len(sections) > 0
    /\ activePortfolio = "w9"

\* C23: once the effects have run, the active portfolio code is null whenever
\* another content than the portfolio is selected, also when a frame requested
\* by the scroll-spy fires after the scroll-spy was torn down.
C23_Original == (EffectsRan /\ selectedContent # "portfolio") => activePortfolio = Null

\* What the code does: with another content selected, only a frame sets an
\* active code.
C23_OnlyFramesSetOffPortfolio ==
    [][(selectedContent' # "portfolio" /\ activePortfolio' # Null
           /\ activePortfolio' # activePortfolio)
       => (rafQueue > 0 /\ rafQueue' = 0)]_vars

\* A frame has fired after the scroll-spy stopped listening and left a work
\* active while the CV is selected.
C23_StaleFrameFired ==
    /\ EffectsRan
    /\ selectedContent = "cv"
    /\ ~listening
    /\ rafQueue = 0
    /\ activePortfolio # Null

\* C25: after every evaluation of the section tracker, the selected content is
\* the section the scroll position gives, also after a click of the navigation
\* that left lastSectionRef as it was.
C25_Original ==
    [][scrollY' # scrollY => selectedContent' = currentKey(scrollY', viewport')]_vars

\* What the code does: after every evaluation lastSectionRef is the section the
\* scroll position gives; the selected content is set only when lastSectionRef
\* changes.
C25_RefFollowsScroll ==
    [][scrollY' # scrollY => lastSection' = currentKey(scrollY', viewport')]_vars

\* The tracker has evaluated in the section of lastSectionRef while a click of
\* the navigation had selected another content.
C25_ClickNotTracked ==
    /\ EffectsRan
    /\ scrollY # 0
    /\ lastSection = currentKey(scrollY, viewport)
    /\ selectedContent # lastSection

\* A step that runs updateActive of the scroll-spy or navigates to a work.
Nominates ==
    \/ NavFrame
    \/ CommitEffects /\ spyDue /\ enabled /\ Len(sections) > 0
    \/ \E code \in RelatedWorks : HandlePortfolioNavClick(code)

\* C29: on a viewport wider than 768px, right after an evaluation of the
\* scroll-spy or a navigation that leaves a work of a category active, the
\* expanded categories are that category alone, whatever was expanded before;
\* when the evaluation nominates no work they are as before.
C29_OneCategoryExpanded ==
    [][(Nominates /\ ~viewport.mobile) =>
          /\ (activePortfolio' \in sectionCodes(sections))
                 => expandedCategories' = <<sectionCategory(activePortfolio')>>
          /\ (activePortfolio' = Null) => expandedCategories' = expandedCategories]_vars

\* A frame has nominated the second work on a wide viewport, and its category
\* alone is expanded.
C29_Witness ==
    /\ ~viewport.mobile
    /\ justEvaluated
    /\ scrollY # 0
    /\ rafQueue = 0
    /\ activePortfolio = ItemCodes[2]
    /\ expandedCategories = <<"Y">>

(***************************************************************************)
(* The section nominated among several in the focus band, under Spec.       *)
(***************************************************************************)

\* The sections that overlap the focus band, and those of them whose top is
\* strictly above the bottom of the band.
SectionsInBand == {i \in SectionIndices : InFocusBand(i)}
StartedInBand ==
    {i \in SectionsInBand : AdjustedTop(i) * 100 < viewport.height * FocusBottomPct}

\* C26: right after an evaluation with several sections overlapping the focus
\* band, the section nominated is the lowest one whose top is strictly above the
\* bottom of the band, and it overlaps the band; a section whose top is exactly
\* on the bottom of the band is nominated only when no other section overlaps.
C26_LowestStarted ==
    justEvaluated =>
        /\ Cardinality(SectionsInBand) >= 2 =>
               /\ StartedInBand # {}
               /\ activePortfolio = sections[MaxOf(StartedInBand)].code
        /\ \A i \in SectionsInBand \ StartedInBand :
               activePortfolio = sections[i].code => SectionsInBand = {i}

\* An evaluation after a scroll or a resize with two sections or more in the
\* band, the lowest of them with its top exactly on the bottom of the band; the
\* one nominated is the one above it.
C26_Witness ==
    /\ justEvaluated
    /\ frameScrolls + frameResizes > 0 \/ scrollY > 0
    /\ Cardinality(SectionsInBand) >= 2
    /\ MaxOf(SectionsInBand) \notin StartedInBand
    /\ activePortfolio = sections[MaxOf(SectionsInBand) - 1].code

(***************************************************************************)
(* The frames of the scroll-spy, under SpecFrames.                          *)
(***************************************************************************)

\* C28: while the scroll-spy listens and frames keep firing, every scroll event
\* is eventually followed by an evaluation made at or after the event, and
\* ticking is false again.
C28_ScrollLeadsToEvaluation == ticking ~> (~ticking /\ justEvaluated)

\* Two scroll events have arrived since the last frame and no evaluation has
\* been made since: one callback is requested.
C28_Witness ==
    /\ listening
    /\ ticking
    /\ rafQueue = 1
    /\ frameScrolls = 2
    /\ ~justEvaluated

(***************************************************************************)
(* The floating banner and the active work, under SpecFloat.                *)
(***************************************************************************)

Quiescent == ~overviewDue /\ ~rowFrame

\* C27: with no event of the user, the state of the scroll indicators reaches a
\* fixed point: after finitely many renders and frames no state update is left.
C27_Original == <>[]Quiescent

\* What the code does: an overview without a row comes to rest after its first
\* commit, and an overview with a row never does: after every commit a frame
\* writes the entry the commit removed, and a render is due again.
C27_RestsWithoutRow == (~overviewRow.present) ~> []Quiescent

C27_RendersForever == overviewRow.present => []<>overviewDue

\* The entry of a row has been removed by a commit after the first, and a frame
\* is requested that will write it again.
C27_EntryRemoved ==
    /\ overviewRow.present
    /\ overviewMounted
    /\ rowRegistered
    /\ scrollState = NoEntry
    /\ ~overviewDue
    /\ rowFrame

====
